---- MODULE Spec2Model ----
(***************************************************************************)
(* Order matching engine (internal/matching/engine.go, internal/models).   *)
(* The engine is a shared-memory component called by concurrent callers:   *)
(* every caller is a process that runs ProcessOrder, CancelOrder, GetOrder *)
(* or GetOrderBookDepth step by step, one action per atomic step.          *)
(***************************************************************************)
EXTENDS Integers, Sequences, FiniteSets, TLC

\* ------------------------------------------------------------------ bounds
\* Number of concurrent callers.
NumProcs == 2
\* Calls (of any kind) made in one behaviour of the concurrent engine.
MaxOps == 3
\* Calls made in one behaviour of a single caller on one symbol.
MaxSeqOps == 4
\* Calls made in one behaviour of a single caller trading at one price.
MaxFifoOps == 5
\* Calls made in one behaviour of the stress scenario (orders of quantity 1
\* at one common price, over two symbols).
MaxStressOps == 3
\* Number of calls in the runs around the limits of validation.
MaxEdgeOps == 2
\* Calls of the submit-only stress test.
MaxTestOps == 4

\* Bits of the integers that hold quantities (64 in the source).
IntBits == 6

\* Calls of the engine trading quantities near the largest integer.
MaxWideOps == 3

\* Prices of incoming orders range over 0..MaxPrice (0 is invalid for LIMIT).
MaxPrice == 2
\* Quantities of incoming orders range over 0..MaxQty (0 is invalid).
MaxQty == 2

Procs == 1..NumProcs
Symbols == {"A", "B"}

\* ------------------------------------------------------- models/order.go
Accepted == "ACCEPTED"
PartialFill == "PARTIAL_FILL"
Filled == "FILLED"
Cancelled == "CANCELLED"

Buy == "BUY"
Sell == "SELL"

Limit == "LIMIT"
Market == "MARKET"

\* A nil *Order / a missing map entry.
Nil == 0

NewOrder(id, symbol, side, orderType, price, quantity) ==
    [ID |-> id, Symbol |-> symbol, Side |-> side, Type |-> orderType,
     Price |-> price, OriginalQuantity |-> quantity,
     RemainingQuantity |-> quantity, FilledQuantity |-> 0,
     Status |-> Accepted]

\* Validate with its two checks in the other order.
MutValidate(o) ==
    IF o.OriginalQuantity <= 0 THEN "INVALID_QUANTITY"
    ELSE IF o.Type = Limit /\ o.Price <= 0 THEN "INVALID_PRICE"
    ELSE ""

\* Order.Validate: the error it returns, or "" for nil.
Validate(o) ==
    IF o.Type = Limit /\ o.Price <= 0 THEN "INVALID_PRICE"
    ELSE IF o.OriginalQuantity <= 0 THEN "INVALID_QUANTITY"
    ELSE ""

NewTrade(buyerOrderID, sellerOrderID, price, quantity) ==
    [BuyerOrderID |-> buyerOrderID, SellerOrderID |-> sellerOrderID,
     Price |-> price, Quantity |-> quantity]

\* ------------------------------------------------- red-black tree of levels
\* A tree is a function from its keys (prices) to price levels (sequences of
\* order ids, the pointers of the Go slice).
EmptyTree == << >>

TreeEmpty(tree) == DOMAIN tree = {}

TreeGet(tree, price) == IF price \in DOMAIN tree THEN tree[price] ELSE << >>

TreePut(tree, price, level) ==
    [k \in (DOMAIN tree) \cup {price} |-> IF k = price THEN level ELSE tree[k]]

TreeRemove(tree, price) ==
    [k \in (DOMAIN tree) \ {price} |-> tree[k]]

SetMin(S) == CHOOSE x \in S : \A y \in S : x <= y
SetMax(S) == CHOOSE x \in S : \A y \in S : x >= y

\* TreeLeft with the ascending comparator on both trees.
MutTreeLeft(tree, side) == SetMin(DOMAIN tree)

\* The comparator of each side: bids descending, asks ascending.
\* TreeLeft is the first key in comparator order.
TreeLeft(tree, side) ==
    IF side = Buy THEN SetMax(DOMAIN tree) ELSE SetMin(DOMAIN tree)

\* The keys of a tree in iterator order.
RECURSIVE KeysFrom(_, _)
KeysFrom(keys, side) ==
    IF keys = {} THEN << >>
    ELSE LET k == IF side = Buy THEN SetMax(keys) ELSE SetMin(keys)
         IN  <<k>> \o KeysFrom(keys \ {k}, side)

TreeKeys(tree, side) == KeysFrom(DOMAIN tree, side)

\* ------------------------------------------------------------- OrderBook
NewOrderBook(symbol) ==
    [Symbol |-> symbol, Bids |-> EmptyTree, Asks |-> EmptyTree, Orders |-> {}]

SideTree(ob, side) == IF side = Buy THEN ob.Bids ELSE ob.Asks

WithSideTree(ob, side, tree) ==
    IF side = Buy THEN [ob EXCEPT !.Bids = tree] ELSE [ob EXCEPT !.Asks = tree]

\* AddOrder putting the order at the front of its level.
MutAddOrder(ob, order) ==
    IF order.ID \in ob.Orders THEN ob
    ELSE LET tree  == SideTree(ob, order.Side)
             level == TreeGet(tree, order.Price)
         IN  WithSideTree([ob EXCEPT !.Orders = @ \cup {order.ID}], order.Side,
                          TreePut(tree, order.Price, <<order.ID>> \o level))

\* AddOrder appending the order to its level twice.
MutAddOrderTwice(ob, order) ==
    IF order.ID \in ob.Orders THEN ob
    ELSE LET tree  == SideTree(ob, order.Side)
             level == TreeGet(tree, order.Price)
         IN  WithSideTree([ob EXCEPT !.Orders = @ \cup {order.ID}], order.Side,
                          TreePut(tree, order.Price,
                                  Append(Append(level, order.ID), order.ID)))

\* AddOrder without the check of ob.Orders.
MutAddOrderAgain(ob, order) ==
    LET tree  == SideTree(ob, order.Side)
        level == TreeGet(tree, order.Price)
    IN  WithSideTree([ob EXCEPT !.Orders = @ \cup {order.ID}], order.Side,
                     TreePut(tree, order.Price, Append(level, order.ID)))

\* OrderBook.AddOrder
AddOrder(ob, order) ==
    IF order.ID \in ob.Orders THEN ob
    ELSE LET tree  == SideTree(ob, order.Side)
             level == TreeGet(tree, order.Price)
         IN  WithSideTree([ob EXCEPT !.Orders = @ \cup {order.ID}], order.Side,
                          TreePut(tree, order.Price, Append(level, order.ID)))

\* The removal loop dropping the head of the slice whatever its id.
MutRemoveFirst(level, orderID) == Tail(level)

\* The slice without its first element equal to orderID.
RECURSIVE RemoveFirst(_, _)
RemoveFirst(level, orderID) ==
    IF level = << >> THEN << >>
    ELSE IF Head(level) = orderID THEN Tail(level)
    ELSE <<Head(level)>> \o RemoveFirst(Tail(level), orderID)

\* RemoveOrder without the delete from ob.Orders.
MutRemoveOrder(ob, ords, orderID) ==
    IF orderID \notin ob.Orders THEN ob
    ELSE LET order == ords[orderID]
             tree  == SideTree(ob, order.Side)
         IN  IF order.Price \notin DOMAIN tree THEN ob
             ELSE LET priceLevel == RemoveFirst(tree[order.Price], orderID)
                  IN  IF Len(priceLevel) = 0
                      THEN WithSideTree(ob, order.Side, TreeRemove(tree, order.Price))
                      ELSE WithSideTree(ob, order.Side,
                                        TreePut(tree, order.Price, priceLevel))

\* RemoveOrder putting the level back even when it has become empty.
MutRemoveKeepLevel(ob, ords, orderID) ==
    IF orderID \notin ob.Orders THEN ob
    ELSE LET order == ords[orderID]
             ob1   == [ob EXCEPT !.Orders = @ \ {orderID}]
             tree  == SideTree(ob, order.Side)
         IN  IF order.Price \notin DOMAIN tree THEN ob1
             ELSE WithSideTree(ob1, order.Side,
                               TreePut(tree, order.Price,
                                       RemoveFirst(tree[order.Price], orderID)))

\* OrderBook.RemoveOrder: the book afterwards (ords is the heap of orders the
\* book's pointers refer to).
RemoveOrder(ob, ords, orderID) ==
    IF orderID \notin ob.Orders THEN ob
    ELSE LET order == ords[orderID]
             ob1   == [ob EXCEPT !.Orders = @ \ {orderID}]
             tree  == SideTree(ob, order.Side)
         IN  IF order.Price \notin DOMAIN tree THEN ob1
             ELSE LET priceLevel == RemoveFirst(tree[order.Price], orderID)
                  IN  IF Len(priceLevel) = 0
                      THEN WithSideTree(ob1, order.Side, TreeRemove(tree, order.Price))
                      ELSE WithSideTree(ob1, order.Side,
                                        TreePut(tree, order.Price, priceLevel))

\* RemoveOrder returning the order whether or not the book held it.
MutRemoveOrderResult(ob, orderID) == orderID

\* OrderBook.RemoveOrder: the order it returns (Nil when not present).
RemoveOrderResult(ob, orderID) == IF orderID \in ob.Orders THEN orderID ELSE Nil

\* OrderBook.GetBestBid / GetBestAsk: the id of the head of the best level.
BestOf(ob, side) ==
    LET tree == SideTree(ob, side)
    IN  IF TreeEmpty(tree) THEN Nil
        ELSE LET priceLevel == tree[TreeLeft(tree, side)]
             IN  IF Len(priceLevel) = 0 THEN Nil ELSE priceLevel[1]

GetBestBid(ob) == BestOf(ob, Buy)
GetBestAsk(ob) == BestOf(ob, Sell)

Opposite(side) == IF side = Buy THEN Sell ELSE Buy

\* The int64 of the quantities, kept at a width of IntBits bits: the largest
\* value, and the sum as the machine computes it, wrapping around.
MaxInt64 == 2^(IntBits - 1) - 1

Wrap(x) == ((x + 2^(IntBits - 1)) % 2^IntBits) - 2^(IntBits - 1)

Add64(a, b) == Wrap(a + b)

\* The order ids of one side in iteration order (best level first, FIFO
\* inside a level).
RECURSIVE FlattenLevels(_, _)
FlattenLevels(tree, keys) ==
    IF keys = << >> THEN << >>
    ELSE tree[Head(keys)] \o FlattenLevels(tree, Tail(keys))

SideOrders(ob, side) ==
    FlattenLevels(SideTree(ob, side), TreeKeys(SideTree(ob, side), side))

\* The loop of CalculateLiquidity over the remaining orders of the walk.
RECURSIVE LiquidityWalk(_, _, _, _)
LiquidityWalk(ids, ords, available, maxNeeded) ==
    IF ids = << >> THEN available
    ELSE LET a == Add64(available, ords[Head(ids)].RemainingQuantity)
         IN  IF a >= maxNeeded THEN a
             ELSE LiquidityWalk(Tail(ids), ords, a, maxNeeded)

\* CalculateLiquidity walking the incoming order's own side.
MutCalculateLiquidity(ob, ords, side, maxNeeded) ==
    IF TreeEmpty(SideTree(ob, side)) THEN 0
    ELSE LiquidityWalk(SideOrders(ob, side), ords, 0, maxNeeded)

\* CalculateLiquidity walking the best level of the opposite side only.
MutLiquidityBestLevel(ob, ords, side, maxNeeded) ==
    IF TreeEmpty(SideTree(ob, Opposite(side))) THEN 0
    ELSE LiquidityWalk(SideTree(ob, Opposite(side))[TreeLeft(SideTree(ob, Opposite(side)),
                                                             Opposite(side))],
                       ords, 0, maxNeeded)

\* OrderBook.CalculateLiquidity
CalculateLiquidity(ob, ords, side, maxNeeded) ==
    IF TreeEmpty(SideTree(ob, Opposite(side))) THEN 0
    ELSE LiquidityWalk(SideOrders(ob, Opposite(side)), ords, 0, maxNeeded)



\* ------------------------------------------------------------ engine state
VARIABLES
    orders,      \* the Order objects ever stored in the registry: id -> Order
    AllOrders,   \* Engine.AllOrders (sync.Map): the ids in the global registry
    OrderBooks,  \* Engine.OrderBooks: symbol -> index into books
    books,       \* the OrderBook objects ever allocated, in allocation order
    bookMu,      \* OrderBook.mu of every allocated book
    mu,          \* Engine.mu
    metrics,     \* the counters of metrics.Metrics
    pc,          \* where every caller is in its call
    call,        \* the local variables of every caller's current call
    ret,         \* what every caller's last call returned (NoRet while it runs)
    opsLeft,     \* number of calls that may still be started
    nextId,      \* the id the next submit draws
    tradeLog,    \* every trade executed so far, in execution order
    addLog,      \* the orders AddOrder put into a book and CancelOrder took out, in order
    lin,         \* the engine of the one-at-a-time execution of the same calls
    linRet       \* what every caller's call returns in that execution

vars == <<orders, AllOrders, OrderBooks, books, bookMu, mu, metrics, pc, call,
          ret, opsLeft, nextId, tradeLog, addLog, lin, linRet>>

\* The variables of the engine and of its callers.
engine == <<orders, AllOrders, OrderBooks, books, bookMu, mu, metrics, pc,
            call, ret, opsLeft, nextId, tradeLog, addLog>>

\* A sync.RWMutex: the writer holding it (Nil for none) and the readers.
FreeMutex == [w |-> Nil, r |-> {}]

NoCall == [op |-> "none"]
NoRet == [op |-> "none"]

NewMetrics ==
    [OrdersReceived |-> 0, OrdersMatched |-> 0, OrdersCancelled |-> 0,
     OrdersInBook |-> 0, TradesExecuted |-> 0]

\* The engine of the one-at-a-time execution: registry and one book per symbol
\* (a book not yet created holds nothing, like a new one).
NewLin ==
    [orders |-> << >>, AllOrders |-> {},
     books |-> [s \in Symbols |-> NewOrderBook(s)]]

\* NewEngine, with a budget of calls.
InitWith(budget) ==
    /\ orders = << >>
    /\ AllOrders = {}
    /\ OrderBooks = << >>
    /\ books = << >>
    /\ bookMu = << >>
    /\ mu = FreeMutex
    /\ metrics = NewMetrics
    /\ pc = [p \in Procs |-> "idle"]
    /\ call = [p \in Procs |-> NoCall]
    /\ ret = [p \in Procs |-> NoRet]
    /\ opsLeft = budget
    /\ nextId = 1
    /\ tradeLog = << >>
    /\ addLog = << >>
    /\ lin = NewLin
    /\ linRet = [p \in Procs |-> NoRet]

Init == InitWith(MaxOps)

\* The orders a caller may submit. The id is fresh (uuid.New in the transport).
InputsOf(symbols, types, prices, qtys) ==
    [symbol : symbols, side : {Buy, Sell}, type : types \cap {Limit},
     price : prices, qty : qtys]
    \cup
    [symbol : symbols, side : {Buy, Sell}, type : types \cap {Market},
     price : {0}, qty : qtys]

\* The caps (maxNeeded) for which CalculateLiquidity is examined: below,
\* at and above every total a book can hold.
LiquidityCaps == -1..(MaxQty * MaxSeqOps + 1)

\* The ids a caller may name: those drawn so far and one never drawn.
KnownIds == 1..nextId

\* Depth limits a caller may ask for (<= 0 is unlimited).
DepthLimits == -1..1

\* getBuyerOrderID naming the incoming order whatever its side.
MutGetBuyerOrderID(o1, o2) == o1.ID

\* ------------------------------------------------------- Engine.executeTrade
getBuyerOrderID(o1, o2) == IF o1.Side = Buy THEN o1.ID ELSE o2.ID
getSellerOrderID(o1, o2) == IF o1.Side = Sell THEN o1.ID ELSE o2.ID

\* The whole of the incoming order traded, whatever the book order has left.
MutTradeQuantity(incomingOrder, bookOrder) == incomingOrder.RemainingQuantity

\* executeTrade trading one unit at a time.
MutTradeOneUnit(incomingOrder, bookOrder) == 1

TradeQuantity(incomingOrder, bookOrder) ==
    IF bookOrder.RemainingQuantity < incomingOrder.RemainingQuantity
    THEN bookOrder.RemainingQuantity
    ELSE incomingOrder.RemainingQuantity

\* The trade priced at the incoming order's price.
MutTradePrice(incomingOrder, bookOrder) == incomingOrder.Price

TradePrice(incomingOrder, bookOrder) == bookOrder.Price

\* The book order left PARTIAL_FILL whatever remains of it.
MutBookOrderStatus(remaining) == PartialFill

\* The status executeTrade gives the book order once its quantities are updated.
BookOrderStatus(remaining) == IF remaining = 0 THEN Filled ELSE PartialFill

\* executeTrade without the DecOrdersInBook of a filled book order.
MutExecuteTrade(ords, ob, incomingID, bookID) ==
    LET incomingOrder == ords[incomingID]
        bookOrder     == ords[bookID]
        tradeQuantity == TradeQuantity(incomingOrder, bookOrder)
        trade == NewTrade(getBuyerOrderID(incomingOrder, bookOrder),
                          getSellerOrderID(incomingOrder, bookOrder),
                          TradePrice(incomingOrder, bookOrder), tradeQuantity)
        bookRemaining == bookOrder.RemainingQuantity - tradeQuantity
        ords1 == [ords EXCEPT
                    ![incomingID].RemainingQuantity = @ - tradeQuantity,
                    ![incomingID].FilledQuantity = @ + tradeQuantity]
        ords2 == [ords1 EXCEPT
                    ![bookID].RemainingQuantity = @ - tradeQuantity,
                    ![bookID].FilledQuantity = @ + tradeQuantity,
                    ![bookID].Status = BookOrderStatus(bookRemaining)]
    IN  [orders |-> ords2,
         ob |-> IF bookRemaining = 0 THEN RemoveOrder(ob, ords2, bookID) ELSE ob,
         inBook |-> 0,
         trade |-> trade]

\* executeTrade on the heap ords and the book ob: the heap, the book, the
\* change of orders_in_book and the trade.
executeTrade(ords, ob, incomingID, bookID) ==
    LET incomingOrder == ords[incomingID]
        bookOrder     == ords[bookID]
        tradeQuantity == TradeQuantity(incomingOrder, bookOrder)
        trade == NewTrade(getBuyerOrderID(incomingOrder, bookOrder),
                          getSellerOrderID(incomingOrder, bookOrder),
                          TradePrice(incomingOrder, bookOrder), tradeQuantity)
        bookRemaining == bookOrder.RemainingQuantity - tradeQuantity
        ords1 == [ords EXCEPT
                    ![incomingID].RemainingQuantity = @ - tradeQuantity,
                    ![incomingID].FilledQuantity = @ + tradeQuantity]
        ords2 == [ords1 EXCEPT
                    ![bookID].RemainingQuantity = @ - tradeQuantity,
                    ![bookID].FilledQuantity = @ + tradeQuantity,
                    ![bookID].Status = BookOrderStatus(bookRemaining)]
    IN  [orders |-> ords2,
         ob |-> IF bookRemaining = 0 THEN RemoveOrder(ob, ords2, bookID) ELSE ob,
         inBook |-> IF bookRemaining = 0 THEN -1 ELSE 0,
         trade |-> trade]

\* PriceBreak with the comparisons made non-strict: an incoming order at the
\* price of the best opposite order does not trade.
MutPriceBreak(order, best) ==
    IF order.Side = Buy THEN order.Price <= best.Price ELSE order.Price >= best.Price

\* processLimitOrder without the price test: the loop never breaks on price.
MutNoPriceBreak(order, best) == FALSE

\* The price test of processLimitOrder's loop: TRUE when the loop breaks.
PriceBreak(order, best) ==
    IF order.Side = Buy THEN order.Price < best.Price ELSE order.Price > best.Price

\* The maker the next iteration of processLimitOrder / processMarketOrder
\* trades with, or Nil when the loop ends.
NextMaker(ords, ob, incomingID) ==
    LET order == ords[incomingID]
        best  == BestOf(ob, Opposite(order.Side))
    IN  IF ~(order.RemainingQuantity > 0) \/ TreeEmpty(SideTree(ob, Opposite(order.Side)))
        THEN Nil
        ELSE IF order.Type = Limit /\ PriceBreak(order, ords[best]) THEN Nil
        ELSE best

\* The final status without the FILLED case.
MutFinalStatus(order) ==
    IF order.FilledQuantity > 0 THEN PartialFill ELSE Accepted

\* The status ProcessOrder gives the incoming order after matching.
FinalStatus(order) ==
    LET afterFills == IF order.FilledQuantity > 0
                      THEN (IF order.RemainingQuantity = 0 THEN Filled ELSE PartialFill)
                      ELSE Accepted
    IN  IF order.RemainingQuantity > 0 THEN afterFills ELSE Filled


\* ------------------------------------------------------- OrderBook.GetDepth
\* The level's total taken from the original quantities.
RECURSIVE MutSumRemaining(_, _)
MutSumRemaining(level, ords) ==
    IF level = << >> THEN 0
    ELSE ords[Head(level)].OriginalQuantity + MutSumRemaining(Tail(level), ords)

RECURSIVE SumRemaining(_, _)
SumRemaining(level, ords) ==
    IF level = << >> THEN 0
    ELSE Add64(ords[Head(level)].RemainingQuantity, SumRemaining(Tail(level), ords))

\* The loop over one side's iterator: stops once count reaches a positive limit.
RECURSIVE DepthLevels(_, _, _, _, _)
DepthLevels(tree, keys, ords, depthLimit, count) ==
    IF keys = << >> \/ (depthLimit > 0 /\ count >= depthLimit) THEN << >>
    ELSE <<[Price |-> Head(keys), Quantity |-> SumRemaining(tree[Head(keys)], ords)]>>
         \o DepthLevels(tree, Tail(keys), ords, depthLimit, count + 1)

GetDepth(ob, ords, depthLimit) ==
    [Symbol |-> ob.Symbol,
     Bids |-> DepthLevels(ob.Bids, TreeKeys(ob.Bids, Buy), ords, depthLimit, 0),
     Asks |-> DepthLevels(ob.Asks, TreeKeys(ob.Asks, Sell), ords, depthLimit, 0)]

\* ------------------------------------------------------------ return values
NoDepth == [Symbol |-> "", Bids |-> << >>, Asks |-> << >>]

\* The nil *Order of a call that returns no order.
NoOrder == [ID |-> Nil]

\* A successful submit: the MatchResult.
RetMatch(order, trades) ==
    [op |-> "submit", id |-> order.ID, err |-> "", order |-> order,
     trades |-> trades, available |-> 0, requested |-> 0, depth |-> NoDepth]

\* A call that returns an order (cancel, get_order).
RetOrder(op, order) ==
    [op |-> op, id |-> order.ID, err |-> "", order |-> order,
     trades |-> << >>, available |-> 0, requested |-> 0, depth |-> NoDepth]

\* A call that fails.
RetError(op, id, err, available, requested) ==
    [op |-> op, id |-> id, err |-> err, order |-> NoOrder,
     trades |-> << >>, available |-> available, requested |-> requested,
     depth |-> NoDepth]

RetDepth(depth) ==
    [op |-> "depth", id |-> Nil, err |-> "", order |-> NoOrder,
     trades |-> << >>, available |-> 0, requested |-> 0, depth |-> depth]



\* ------------------------------------------- the calls executed one at a time
\* The whole loop of processLimitOrder / processMarketOrder.
RECURSIVE MatchAll(_, _, _, _)
MatchAll(ords, ob, incomingID, trades) ==
    LET maker == NextMaker(ords, ob, incomingID)
        t     == executeTrade(ords, ob, incomingID, maker)
    IN  IF maker = Nil THEN [orders |-> ords, ob |-> ob, trades |-> trades]
        ELSE MatchAll(t.orders, t.ob, incomingID, Append(trades, t.trade))

\* Rejects checking only that the opposite side is not empty.
MutRejects(order, available) ==
    order.Type = Market /\ available < 1

\* The liquidity check applied to orders of every type.
MutRejectsAny(order, available) == available < order.OriginalQuantity

\* Whether the liquidity check of ProcessOrder rejects the order.
Rejects(order, available) ==
    order.Type = Market /\ available < order.OriginalQuantity

\* Whether ProcessOrder rests the order after matching.
Rests(order) == order.RemainingQuantity > 0 /\ order.Type # Market

\* ProcessOrder run alone on the engine st: the engine afterwards and the
\* value returned.
SeqSubmit(st, order) ==
    LET ob        == st.books[order.Symbol]
        ords1     == [i \in (DOMAIN st.orders) \cup {order.ID} |->
                        IF i = order.ID THEN order ELSE st.orders[i]]
        available == CalculateLiquidity(ob, ords1, order.Side, order.OriginalQuantity)
        m         == MatchAll(ords1, ob, order.ID, << >>)
        final     == [m.orders[order.ID] EXCEPT !.Status = FinalStatus(m.orders[order.ID])]
    IN  IF Validate(order) # ""
        THEN [lin |-> st, ret |-> RetError("submit", order.ID, Validate(order), 0, 0)]
        ELSE IF Rejects(order, available)
        THEN [lin |-> st,
              ret |-> RetError("submit", order.ID, "INSUFFICIENT_LIQUIDITY",
                               available, order.OriginalQuantity)]
        ELSE [lin |-> [orders |-> [m.orders EXCEPT ![order.ID] = final],
                       AllOrders |-> st.AllOrders \cup {order.ID},
                       books |-> [st.books EXCEPT ![order.Symbol] =
                                    IF Rests(final) THEN AddOrder(m.ob, final) ELSE m.ob]],
              ret |-> RetMatch(final, m.trades)]

\* CancelOrder run alone on the engine st.
SeqCancel(st, orderID) ==
    IF orderID \notin st.AllOrders
    THEN [lin |-> st, ret |-> RetError("cancel", orderID, "NOT_FOUND", 0, 0)]
    ELSE LET order == st.orders[orderID]
             done  == [order EXCEPT !.Status = Cancelled]
         IN  IF order.Status = Filled
             THEN [lin |-> st, ret |-> RetError("cancel", orderID, "ALREADY_FILLED", 0, 0)]
             ELSE IF order.Status = Cancelled
             THEN [lin |-> st, ret |-> RetOrder("cancel", order)]
             ELSE [lin |-> [st EXCEPT
                              !.orders[orderID] = done,
                              !.books[order.Symbol] = RemoveOrder(@, st.orders, orderID)],
                   ret |-> RetOrder("cancel", done)]

\* The order as its submit received it.
AsSubmitted(o) == NewOrder(o.ID, o.Symbol, o.Side, o.Type, o.Price, o.OriginalQuantity)

\* -------------------------------------------------------------- call frames
\* The local variables of a call in progress.
NewCall(op, id, sym, limit) ==
    [op |-> op, id |-> id, sym |-> sym, limit |-> limit, ob |-> Nil, trades |-> << >>]

\* The call begins: one call less may start.
Begin(p) ==
    /\ pc[p] = "idle"
    /\ opsLeft > 0
    /\ opsLeft' = opsLeft - 1

Enter(p, c) ==
    /\ pc' = [pc EXCEPT ![p] = "gob_rlock"]
    /\ call' = [call EXCEPT ![p] = c]
    /\ ret' = [ret EXCEPT ![p] = NoRet]

Return(p, r) ==
    /\ pc' = [pc EXCEPT ![p] = "idle"]
    /\ call' = [call EXCEPT ![p] = NoCall]
    /\ ret' = [ret EXCEPT ![p] = r]

Goto(p, label) == pc' = [pc EXCEPT ![p] = label]

\* The one-at-a-time execution runs the call r now.
Linearize(p, r) ==
    /\ lin' = r.lin
    /\ linRet' = [linRet EXCEPT ![p] = r.ret]

\* ------------------------------------------------------ Engine.ProcessOrder
\* Lines 285-297: count the order, validate it, store it in the registry.
SubmitStart(p, in) ==
    LET order == NewOrder(nextId, in.symbol, in.side, in.type, in.price, in.qty)
        err   == Validate(order)
    IN  /\ Begin(p)
        /\ nextId' = nextId + 1
        /\ metrics' = [metrics EXCEPT !.OrdersReceived = @ + 1]
        /\ IF err # ""
           THEN /\ Return(p, RetError("submit", order.ID, err, 0, 0))
                /\ Linearize(p, SeqSubmit(lin, order))
                /\ UNCHANGED <<orders, AllOrders>>
           ELSE /\ orders' = [i \in (DOMAIN orders) \cup {order.ID} |->
                                IF i = order.ID THEN order ELSE orders[i]]
                /\ AllOrders' = AllOrders \cup {order.ID}
                /\ Enter(p, NewCall("submit", order.ID, order.Symbol, 0))
                /\ linRet' = [linRet EXCEPT ![p] = NoRet]
                /\ UNCHANGED lin
        /\ UNCHANGED <<OrderBooks, books, bookMu, mu, tradeLog, addLog>>

\* ------------------------------------------------------ Engine.getOrderBook
\* e.mu.RLock()
GobRLock(p) ==
    /\ pc[p] = "gob_rlock"
    /\ mu.w = Nil
    /\ mu' = [mu EXCEPT !.r = @ \cup {p}]
    /\ Goto(p, "gob_read")
    /\ UNCHANGED <<orders, AllOrders, OrderBooks, books, bookMu, metrics, call,
                   ret, opsLeft, nextId, tradeLog, addLog, lin, linRet>>

\* Where a caller goes once it has its book.
AfterBook(op) == IF op = "depth" THEN "rlock" ELSE "lock"

\* getOrderBook keeping the read lock of e.mu when it returns.
MutGobRead(p) ==
    /\ pc[p] = "gob_read"
    /\ IF call[p].sym \in DOMAIN OrderBooks
       THEN /\ call' = [call EXCEPT ![p].ob = OrderBooks[call[p].sym]]
            /\ Goto(p, AfterBook(call[p].op))
            /\ UNCHANGED mu
       ELSE /\ Goto(p, "gob_lock")
            /\ mu' = [mu EXCEPT !.r = @ \ {p}]
            /\ UNCHANGED call
    /\ UNCHANGED <<orders, AllOrders, OrderBooks, books, bookMu, metrics,
                   ret, opsLeft, nextId, tradeLog, addLog, lin, linRet>>

\* ob, exists := e.OrderBooks[symbol]; e.mu.RUnlock()
GobRead(p) ==
    /\ pc[p] = "gob_read"
    /\ mu' = [mu EXCEPT !.r = @ \ {p}]
    /\ IF call[p].sym \in DOMAIN OrderBooks
       THEN /\ call' = [call EXCEPT ![p].ob = OrderBooks[call[p].sym]]
            /\ Goto(p, AfterBook(call[p].op))
       ELSE /\ Goto(p, "gob_lock")
            /\ UNCHANGED call
    /\ UNCHANGED <<orders, AllOrders, OrderBooks, books, bookMu, metrics,
                   ret, opsLeft, nextId, tradeLog, addLog, lin, linRet>>

\* e.mu.Lock()
GobLock(p) ==
    /\ pc[p] = "gob_lock"
    /\ mu.w = Nil /\ mu.r = {}
    /\ mu' = [mu EXCEPT !.w = p]
    /\ Goto(p, "gob_create")
    /\ UNCHANGED <<orders, AllOrders, OrderBooks, books, bookMu, metrics, call,
                   ret, opsLeft, nextId, tradeLog, addLog, lin, linRet>>

\* getOrderBook without the second lookup under the write lock.
MutMustCreate(symbol) == TRUE

\* Whether the slow path of getOrderBook allocates a book (the second lookup
\* under the write lock).
MustCreate(symbol) == symbol \notin DOMAIN OrderBooks

\* getOrderBook registering the engine's first book under every new symbol.
MutGobCreate(p) ==
    /\ pc[p] = "gob_create"
    /\ mu' = [mu EXCEPT !.w = Nil]
    /\ IF MustCreate(call[p].sym)
       THEN IF books = << >>
            THEN /\ books' = Append(books, NewOrderBook(call[p].sym))
                 /\ bookMu' = Append(bookMu, FreeMutex)
                 /\ OrderBooks' = [s \in {call[p].sym} |-> 1]
                 /\ call' = [call EXCEPT ![p].ob = 1]
            ELSE /\ OrderBooks' = [s \in (DOMAIN OrderBooks) \cup {call[p].sym} |-> 1]
                 /\ call' = [call EXCEPT ![p].ob = 1]
                 /\ UNCHANGED <<books, bookMu>>
       ELSE /\ call' = [call EXCEPT ![p].ob = OrderBooks[call[p].sym]]
            /\ UNCHANGED <<books, bookMu, OrderBooks>>
    /\ Goto(p, AfterBook(call[p].op))
    /\ UNCHANGED <<orders, AllOrders, metrics, ret, opsLeft, nextId, tradeLog, addLog,
                   lin, linRet>>

\* The second lookup, the allocation, e.mu.Unlock()
GobCreate(p) ==
    /\ pc[p] = "gob_create"
    /\ mu' = [mu EXCEPT !.w = Nil]
    /\ IF MustCreate(call[p].sym)
       THEN /\ books' = Append(books, NewOrderBook(call[p].sym))
            /\ bookMu' = Append(bookMu, FreeMutex)
            /\ OrderBooks' = [s \in (DOMAIN OrderBooks) \cup {call[p].sym} |->
                                IF s = call[p].sym THEN Len(books) + 1
                                ELSE OrderBooks[s]]
            /\ call' = [call EXCEPT ![p].ob = Len(books) + 1]
       ELSE /\ call' = [call EXCEPT ![p].ob = OrderBooks[call[p].sym]]
            /\ UNCHANGED <<books, bookMu, OrderBooks>>
    /\ Goto(p, AfterBook(call[p].op))
    /\ UNCHANGED <<orders, AllOrders, metrics, ret, opsLeft, nextId, tradeLog, addLog,
                   lin, linRet>>

\* ------------------------------------------------------------ ob.Lock()
Locked(op) == IF op = "submit" THEN "admit" ELSE "cancel"

\* ob.Lock() of ProcessOrder and CancelOrder, as the engine sees it.
LockBook(p) ==
    /\ pc[p] = "lock"
    /\ bookMu[call[p].ob].w = Nil /\ bookMu[call[p].ob].r = {}
    /\ bookMu' = [bookMu EXCEPT ![call[p].ob].w = p]
    /\ Goto(p, Locked(call[p].op))
    /\ UNCHANGED <<orders, AllOrders, OrderBooks, books, mu, metrics, call,
                   ret, opsLeft, nextId, tradeLog, addLog>>

\* ob.Lock(). The one-at-a-time execution runs the calls in the order in
\* which they take the lock.
BookLock(p) ==
    /\ LockBook(p)
    /\ IF call[p].op = "submit"
       THEN Linearize(p, SeqSubmit(lin, AsSubmitted(orders[call[p].id])))
       ELSE Linearize(p, SeqCancel(lin, call[p].id))

\* A return that leaves the book locked.
MutUnlock(p) == UNCHANGED bookMu

\* ob.Unlock()
Unlock(p) == bookMu' = [bookMu EXCEPT ![call[p].ob].w = Nil]

\* Lines 303-311: the liquidity check of a MARKET order; a rejection deletes
\* the order from the registry, unlocks and returns the error.
Admit(p) ==
    LET order     == orders[call[p].id]
        ob        == books[call[p].ob]
        available == CalculateLiquidity(ob, orders, order.Side, order.OriginalQuantity)
    IN  /\ pc[p] = "admit"
        /\ IF Rejects(order, available)
           THEN /\ AllOrders' = AllOrders \ {order.ID}
                /\ Unlock(p)
                /\ Return(p, RetError("submit", order.ID, "INSUFFICIENT_LIQUIDITY",
                                      available, order.OriginalQuantity))
           ELSE /\ Goto(p, "match")
                /\ UNCHANGED <<AllOrders, bookMu, call, ret>>
        /\ UNCHANGED <<orders, OrderBooks, books, mu, metrics, opsLeft, nextId,
                       tradeLog, addLog, lin, linRet>>

\* One iteration of the loop of processLimitOrder / processMarketOrder.
MatchStep(p) ==
    LET maker == NextMaker(orders, books[call[p].ob], call[p].id)
        t     == executeTrade(orders, books[call[p].ob], call[p].id, maker)
    IN  /\ pc[p] = "match"
        /\ maker # Nil
        /\ orders' = t.orders
        /\ books' = [books EXCEPT ![call[p].ob] = t.ob]
        /\ metrics' = [metrics EXCEPT !.OrdersInBook = @ + t.inBook]
        /\ call' = [call EXCEPT ![p].trades = Append(@, t.trade)]
        /\ tradeLog' = Append(tradeLog, t.trade)
        /\ UNCHANGED <<AllOrders, OrderBooks, bookMu, mu, pc, ret, opsLeft,
                       nextId, addLog, lin, linRet>>

\* ProcessOrder counting one matched order per trade and none for the
\* incoming order.
MutFinalize(p) ==
    LET id         == call[p].id
        trades     == call[p].trades
        tradeCount == Len(trades)
        order      == [orders[id] EXCEPT !.Status = FinalStatus(orders[id])]
    IN  /\ pc[p] = "match"
        /\ NextMaker(orders, books[call[p].ob], id) = Nil
        /\ orders' = [orders EXCEPT ![id] = order]
        /\ books' = [books EXCEPT ![call[p].ob] =
                        IF Rests(order) THEN AddOrder(@, order) ELSE @]
        /\ metrics' = [metrics EXCEPT
                         !.TradesExecuted = @ + tradeCount,
                         !.OrdersMatched = @ + tradeCount,
                         !.OrdersInBook = IF Rests(order) THEN @ + 1 ELSE @]
        /\ addLog' = IF Rests(order) /\ id \notin books[call[p].ob].Orders
                      THEN Append(addLog, [op |-> "add", id |-> id]) ELSE addLog
        /\ Unlock(p)
        /\ Return(p, RetMatch(order, trades))
        /\ UNCHANGED <<AllOrders, OrderBooks, mu, opsLeft, nextId, tradeLog,
                       lin, linRet>>

\* Lines 321-352, once the loop has ended: the counters, the final status,
\* the resting of the residue, the unlock and the return.
Finalize(p) ==
    LET id         == call[p].id
        trades     == call[p].trades
        tradeCount == Len(trades)
        order      == [orders[id] EXCEPT !.Status = FinalStatus(orders[id])]
    IN  /\ pc[p] = "match"
        /\ NextMaker(orders, books[call[p].ob], id) = Nil
        /\ orders' = [orders EXCEPT ![id] = order]
        /\ books' = [books EXCEPT ![call[p].ob] =
                        IF Rests(order) THEN AddOrder(@, order) ELSE @]
        /\ metrics' = [metrics EXCEPT
                         !.TradesExecuted = @ + tradeCount,
                         !.OrdersMatched = IF tradeCount > 0 THEN @ + tradeCount + 1 ELSE @,
                         !.OrdersInBook = IF Rests(order) THEN @ + 1 ELSE @]
        /\ addLog' = IF Rests(order) /\ id \notin books[call[p].ob].Orders
                      THEN Append(addLog, [op |-> "add", id |-> id]) ELSE addLog
        /\ Unlock(p)
        /\ Return(p, RetMatch(order, trades))
        /\ UNCHANGED <<AllOrders, OrderBooks, mu, opsLeft, nextId, tradeLog,
                       lin, linRet>>

\* ------------------------------------------------------- Engine.CancelOrder
\* What the checks of lines 453-458, made without the book lock, do with the
\* status they read.
EarlyCancel(status) ==
    IF status = Filled THEN "ALREADY_FILLED"
    ELSE IF status = Cancelled THEN "RETURN"
    ELSE "LOCK"

\* CancelOrder counting the cancel of an order it does not find.
MutCancelStart(p, orderID) ==
    /\ Begin(p)
    /\ IF orderID \notin AllOrders
       THEN /\ Return(p, RetError("cancel", orderID, "NOT_FOUND", 0, 0))
            /\ Linearize(p, SeqCancel(lin, orderID))
            /\ metrics' = [metrics EXCEPT !.OrdersCancelled = @ + 1]
       ELSE /\ CASE EarlyCancel(orders[orderID].Status) = "ALREADY_FILLED" ->
                   /\ Return(p, RetError("cancel", orderID, "ALREADY_FILLED", 0, 0))
                   /\ Linearize(p, SeqCancel(lin, orderID))
              [] EarlyCancel(orders[orderID].Status) = "RETURN" ->
                   /\ Return(p, RetOrder("cancel", orders[orderID]))
                   /\ Linearize(p, SeqCancel(lin, orderID))
              [] OTHER ->
                   /\ Enter(p, NewCall("cancel", orderID, orders[orderID].Symbol, 0))
                   /\ linRet' = [linRet EXCEPT ![p] = NoRet]
                   /\ UNCHANGED lin
            /\ UNCHANGED metrics
    /\ UNCHANGED <<orders, AllOrders, OrderBooks, books, bookMu, mu,
                   nextId, tradeLog, addLog>>

\* Lines 447-458: the registry lookup and the status checks made without
\* the book lock.
CancelStart(p, orderID) ==
    /\ Begin(p)
    /\ IF orderID \notin AllOrders
       THEN /\ Return(p, RetError("cancel", orderID, "NOT_FOUND", 0, 0))
            /\ Linearize(p, SeqCancel(lin, orderID))
       ELSE CASE EarlyCancel(orders[orderID].Status) = "ALREADY_FILLED" ->
                   /\ Return(p, RetError("cancel", orderID, "ALREADY_FILLED", 0, 0))
                   /\ Linearize(p, SeqCancel(lin, orderID))
              [] EarlyCancel(orders[orderID].Status) = "RETURN" ->
                   /\ Return(p, RetOrder("cancel", orders[orderID]))
                   /\ Linearize(p, SeqCancel(lin, orderID))
              [] OTHER ->
                   /\ Enter(p, NewCall("cancel", orderID, orders[orderID].Symbol, 0))
                   /\ linRet' = [linRet EXCEPT ![p] = NoRet]
                   /\ UNCHANGED lin
    /\ UNCHANGED <<orders, AllOrders, OrderBooks, books, bookMu, mu, metrics,
                   nextId, tradeLog, addLog>>

\* CancelOrder without the re-check under the lock.
MutRecheckFilled(status) == FALSE

\* The re-check of line 465 under the book lock.
RecheckFilled(status) == status = Filled

\* Lines 464-479 under the book lock, the unlock and the return.
CancelLocked(p) ==
    LET id      == call[p].id
        ob      == books[call[p].ob]
        removed == RemoveOrderResult(ob, id)
        order   == [orders[id] EXCEPT !.Status = Cancelled]
    IN  /\ pc[p] = "cancel"
        /\ Unlock(p)
        /\ IF RecheckFilled(orders[id].Status)
           THEN /\ Return(p, RetError("cancel", id, "ALREADY_FILLED", 0, 0))
                /\ UNCHANGED <<orders, books, metrics>>
           ELSE /\ books' = [books EXCEPT ![call[p].ob] = RemoveOrder(ob, orders, id)]
                /\ orders' = [orders EXCEPT ![id] = order]
                /\ metrics' = [metrics EXCEPT
                                 !.OrdersCancelled = @ + 1,
                                 !.OrdersInBook = IF removed # Nil THEN @ - 1 ELSE @]
                /\ Return(p, RetOrder("cancel", order))
        /\ addLog' = IF ~RecheckFilled(orders[id].Status) /\ removed # Nil
                      THEN Append(addLog, [op |-> "cancel", id |-> id]) ELSE addLog
        /\ UNCHANGED <<AllOrders, OrderBooks, mu, opsLeft, nextId, tradeLog,
                       lin, linRet>>

\* ---------------------------------------------------------- Engine.GetOrder
\* The callers that hold a book lock and are about to run executeTrade on
\* the order, as the incoming order or as the book order.
Trading(orderID) ==
    {q \in Procs :
        /\ pc[q] = "match"
        /\ NextMaker(orders, books[call[q].ob], call[q].id) # Nil
        /\ orderID \in {call[q].id, NextMaker(orders, books[call[q].ob], call[q].id)}}

\* What a reader without the book lock can find in the fields of the order.
\* GetOrder returns the pointer and takes no lock: a read that runs during
\* executeTrade (lines 413-427) finds each of RemainingQuantity,
\* FilledQuantity and Status either before or after its write.
Observations(orderID) ==
    LET o == orders[orderID]
    IN  IF Trading(orderID) = {} THEN {o}
        ELSE LET q     == CHOOSE q \in Trading(orderID) : TRUE
                 maker == NextMaker(orders, books[call[q].ob], call[q].id)
                 after == executeTrade(orders, books[call[q].ob], call[q].id,
                                       maker).orders[orderID]
             IN  {[o EXCEPT !.RemainingQuantity = r, !.FilledQuantity = f,
                            !.Status = st] :
                    r \in {o.RemainingQuantity, after.RemainingQuantity},
                    f \in {o.FilledQuantity, after.FilledQuantity},
                    st \in {o.Status, after.Status}}

\* GetOrder answering NOT_FOUND for orders that are FILLED.
MutGetOrder(p, orderID) ==
    /\ Begin(p)
    /\ IF orderID \notin AllOrders \/ orders[orderID].Status = Filled
       THEN Return(p, RetError("get_order", orderID, "NOT_FOUND", 0, 0))
       ELSE \E o \in Observations(orderID) : Return(p, RetOrder("get_order", o))
    /\ linRet' = [linRet EXCEPT ![p] = NoRet]
    /\ UNCHANGED <<orders, AllOrders, OrderBooks, books, bookMu, mu, metrics,
                   nextId, tradeLog, addLog, lin>>

GetOrder(p, orderID) ==
    /\ Begin(p)
    /\ IF orderID \notin AllOrders
       THEN Return(p, RetError("get_order", orderID, "NOT_FOUND", 0, 0))
       ELSE \E o \in Observations(orderID) : Return(p, RetOrder("get_order", o))
    /\ linRet' = [linRet EXCEPT ![p] = NoRet]
    /\ UNCHANGED <<orders, AllOrders, OrderBooks, books, bookMu, mu, metrics,
                   nextId, tradeLog, addLog, lin>>

\* GetOrderBookDepth counted as a received order.
MutDepthStart(p, symbol, depthLimit) ==
    /\ Begin(p)
    /\ Enter(p, NewCall("depth", Nil, symbol, depthLimit))
    /\ linRet' = [linRet EXCEPT ![p] = NoRet]
    /\ metrics' = [metrics EXCEPT !.OrdersReceived = @ + 1]
    /\ UNCHANGED <<orders, AllOrders, OrderBooks, books, bookMu, mu,
                   nextId, tradeLog, addLog, lin>>

\* ------------------------------------------------- Engine.GetOrderBookDepth
DepthStart(p, symbol, depthLimit) ==
    /\ Begin(p)
    /\ Enter(p, NewCall("depth", Nil, symbol, depthLimit))
    /\ linRet' = [linRet EXCEPT ![p] = NoRet]
    /\ UNCHANGED <<orders, AllOrders, OrderBooks, books, bookMu, mu, metrics,
                   nextId, tradeLog, addLog, lin>>

\* GetDepth reading the book without waiting for its writer.
MutDepthRLock(p) ==
    /\ pc[p] = "rlock"
    /\ bookMu' = [bookMu EXCEPT ![call[p].ob].r = @ \cup {p}]
    /\ Goto(p, "depth")
    /\ UNCHANGED <<orders, AllOrders, OrderBooks, books, mu, metrics, call,
                   ret, opsLeft, nextId, tradeLog, addLog, lin, linRet>>

\* ob.RLock() in GetDepth
DepthRLock(p) ==
    /\ pc[p] = "rlock"
    /\ bookMu[call[p].ob].w = Nil
    /\ bookMu' = [bookMu EXCEPT ![call[p].ob].r = @ \cup {p}]
    /\ Goto(p, "depth")
    /\ UNCHANGED <<orders, AllOrders, OrderBooks, books, mu, metrics, call,
                   ret, opsLeft, nextId, tradeLog, addLog, lin, linRet>>

\* The snapshot under the shared lock, ob.RUnlock() and the return.
DepthRead(p) ==
    /\ pc[p] = "depth"
    /\ bookMu' = [bookMu EXCEPT ![call[p].ob].r = @ \ {p}]
    /\ Return(p, RetDepth(GetDepth(books[call[p].ob], orders, call[p].limit)))
    /\ UNCHANGED <<orders, AllOrders, OrderBooks, books, mu, metrics, opsLeft,
                   nextId, tradeLog, addLog, lin, linRet>>

\* ----------------------------------------------------------- specifications
\* The steps of getOrderBook.
BookStep(p) ==
    \/ GobRLock(p)
    \/ GobRead(p)
    \/ GobLock(p)
    \/ GobCreate(p)

\* The steps of submit and cancel under the book lock.
LockedStep(p) ==
    \/ Admit(p)
    \/ MatchStep(p)
    \/ Finalize(p)
    \/ CancelLocked(p)

\* The steps of submit and cancel after their first.
WriterStep(p) ==
    \/ BookStep(p)
    \/ BookLock(p)
    \/ LockedStep(p)

\* The steps of depth after its first.
ReaderStep(p) ==
    \/ DepthRLock(p)
    \/ DepthRead(p)

\* The concurrent engine: NumProcs callers, one symbol, every kind of order.
\* SpecLevel, SpecFill and SpecLimit below are this engine with fewer kinds of
\* order and of call.
SpecInputs == InputsOf({"A"}, {Limit, Market}, 0..MaxPrice, 0..MaxQty)

Next ==
    \E p \in Procs :
        \/ \E in \in SpecInputs : SubmitStart(p, in)
        \/ \E id \in KnownIds : CancelStart(p, id)
        \/ \E id \in KnownIds : GetOrder(p, id)
        \/ \E l \in DepthLimits : DepthStart(p, "A", l)
        \/ WriterStep(p)
        \/ ReaderStep(p)

Spec == Init /\ [][Next]_vars


\* A single caller on one symbol: valid LIMIT and MARKET orders, and cancels.
SeqInputs == InputsOf({"A"}, {Limit, Market}, 1..MaxPrice, 1..MaxQty)

InitSeq == InitWith(MaxSeqOps)

NextSeq ==
    \/ \E in \in SeqInputs : SubmitStart(1, in)
    \/ \E id \in KnownIds : CancelStart(1, id)
    \/ WriterStep(1)

SpecSeq == InitSeq /\ [][NextSeq]_vars

\* A single caller trading LIMIT orders at one price: long price levels.
FifoInputs == InputsOf({"A"}, {Limit}, {1}, 1..MaxQty)

InitFifo == InitWith(MaxFifoOps)

NextFifo ==
    \/ \E in \in FifoInputs : SubmitStart(1, in)
    \/ \E id \in KnownIds : CancelStart(1, id)
    \/ WriterStep(1)

SpecFifo == InitFifo /\ [][NextFifo]_vars

\* The stress scenario of TestEngineConcurrency, over two symbols and with
\* cancels and queries: LIMIT orders of quantity 1 at one common price.
StressInputs == InputsOf(Symbols, {Limit}, {1}, {1})

InitStress == InitWith(MaxStressOps)

NextStress ==
    \E p \in Procs :
        \/ \E in \in StressInputs : SubmitStart(p, in)
        \/ \E id \in KnownIds : CancelStart(p, id)
        \/ \E id \in KnownIds : GetOrder(p, id)
        \/ \E s \in Symbols : DepthStart(p, s, 0)
        \/ WriterStep(p)
        \/ ReaderStep(p)

SpecStress == InitStress /\ [][NextStress]_vars

\* Concurrent callers submitting orders around the limits of validation
\* (prices and quantities below, at and above 0), with cancels and queries.
EdgeInputs == InputsOf({"A"}, {Limit, Market}, -1..1, -1..1)

InitEdge == InitWith(MaxEdgeOps)

NextEdge ==
    \E p \in Procs :
        \/ \E in \in EdgeInputs : SubmitStart(p, in)
        \/ \E id \in KnownIds : CancelStart(p, id)
        \/ \E id \in KnownIds : GetOrder(p, id)
        \/ \E l \in DepthLimits : DepthStart(p, "A", l)
        \/ WriterStep(p)
        \/ ReaderStep(p)

SpecEdge == InitEdge /\ [][NextEdge]_vars

\* TestEngineConcurrency: NumProcs goroutines submitting, MaxTestOps times in
\* all, LIMIT orders of quantity 1 at one common price on one symbol. Every
\* submit may be of either side, which covers the alternation (id+j)%2 of
\* the test under every scheduling.
TestInputs == InputsOf({"A"}, {Limit}, {1}, {1})

InitTest == InitWith(MaxTestOps)

NextTest ==
    \E p \in Procs :
        \/ \E in \in TestInputs : SubmitStart(p, in)
        \/ BookStep(p)
        \/ BookLock(p)
        \/ Admit(p)
        \/ MatchStep(p)
        \/ Finalize(p)

SpecTest == InitTest /\ [][NextTest]_vars

\* One caller trading and querying with quantities in the upper half of the
\* integer range, all valid: more than half the largest value, and the
\* largest value.
WideInputs == InputsOf({"A"}, {Limit, Market}, {1}, {MaxInt64 \div 2 + 1, MaxInt64})

InitWide == InitWith(MaxWideOps)

NextWide ==
    \/ \E in \in WideInputs : SubmitStart(1, in)
    \/ DepthStart(1, "A", 0)
    \/ BookStep(1)
    \/ BookLock(1)
    \/ Admit(1)
    \/ MatchStep(1)
    \/ Finalize(1)
    \/ ReaderStep(1)

SpecWide == InitWide /\ [][NextWide]_vars

\* Concurrent callers on one price level: LIMIT orders at one price, of
\* quantities from 0 (rejected) to MaxQty, with cancels and queries.
LevelInputs == InputsOf({"A"}, {Limit}, {1}, 0..MaxQty)

NextLevel ==
    \E p \in Procs :
        \/ \E in \in LevelInputs : SubmitStart(p, in)
        \/ \E id \in KnownIds : CancelStart(p, id)
        \/ \E id \in KnownIds : GetOrder(p, id)
        \/ \E l \in DepthLimits : DepthStart(p, "A", l)
        \/ WriterStep(p)
        \/ ReaderStep(p)

SpecLevel == Init /\ [][NextLevel]_vars

\* Concurrent submits of LIMIT and MARKET orders at one price, with cancels
\* and get_order: MARKET orders that are filled by several makers, and MARKET
\* orders that are rejected.
FillInputs == InputsOf({"A"}, {Limit, Market}, {1}, 1..MaxQty)

NextFill ==
    \E p \in Procs :
        \/ \E in \in FillInputs : SubmitStart(p, in)
        \/ \E id \in KnownIds : CancelStart(p, id)
        \/ \E id \in KnownIds : GetOrder(p, id)
        \/ WriterStep(p)

SpecFill == Init /\ [][NextFill]_vars

\* Concurrent submits of LIMIT orders at every price and quantity, with depth
\* queries: books of several price levels.
LimitInputs == InputsOf({"A"}, {Limit}, 1..MaxPrice, 1..MaxQty)

NextLimit ==
    \E p \in Procs :
        \/ \E in \in LimitInputs : SubmitStart(p, in)
        \/ \E l \in DepthLimits : DepthStart(p, "A", l)
        \/ BookStep(p)
        \/ BookLock(p)
        \/ Admit(p)
        \/ MatchStep(p)
        \/ Finalize(p)
        \/ ReaderStep(p)

SpecLimit == Init /\ [][NextLimit]_vars

\* A step of the engine in a call that has started (what the
\* one-at-a-time execution does at the same time is left aside).
Runs(p) ==
    \/ BookStep(p)
    \/ LockBook(p)
    \/ LockedStep(p)
    \/ ReaderStep(p)

\* Every caller that can take a step eventually takes one: the Go scheduler
\* runs every runnable goroutine, and a mutex that is free is acquired.
FairStress == SpecStress /\ \A p \in Procs : WF_engine(Runs(p))


\* =================================================================== claims
\* The order ids held by the levels of a tree.
LevelIds(tree) ==
    UNION {{tree[k][i] : i \in 1..Len(tree[k])} : k \in DOMAIN tree}

\* The order ids a book holds, through by_id or through a level.
RestingIn(ob) == ob.Orders \cup LevelIds(ob.Bids) \cup LevelIds(ob.Asks)

BookIds == 1..Len(books)

IsResting(id) == \E b \in BookIds : id \in RestingIn(books[b])

\* No writer holds the lock of book b.
Unlocked(b) == bookMu[b].w = Nil

\* The prices at which a side has orders: the keys of its tree and the prices
\* of the orders in its levels.
SidePrices(ob, side) ==
    (DOMAIN SideTree(ob, side))
    \cup {orders[i].Price : i \in LevelIds(SideTree(ob, side))}

TradeNames(t, id) == t.BuyerOrderID = id \/ t.SellerOrderID = id

\* C1: whenever no operation holds a book's lock, one side of the book is
\* empty or the best (highest) bid price is strictly less than the best
\* (lowest) ask price.
C1_NotCrossed ==
    \A b \in BookIds :
        Unlocked(b) =>
            \/ SidePrices(books[b], Buy) = {}
            \/ SidePrices(books[b], Sell) = {}
            \/ SetMax(SidePrices(books[b], Buy)) < SetMin(SidePrices(books[b], Sell))

\* C1 witness: after a trade, an unlocked book holds bids and asks.
C1_Witness ==
    \E b \in BookIds :
        /\ Unlocked(b)
        /\ Len(tradeLog) > 0
        /\ SidePrices(books[b], Buy) # {}
        /\ SidePrices(books[b], Sell) # {}

\* C2: once an order is CANCELLED (a cancel returned success for it), it stays
\* CANCELLED in every later state, it does not rest in any book, and no later
\* trade names it.
C2_CancelledIsFinal ==
    [][\A id \in DOMAIN orders :
          orders[id].Status = Cancelled =>
              /\ orders'[id].Status = Cancelled
              /\ ~IsResting(id)'
              /\ \A k \in (Len(tradeLog) + 1)..Len(tradeLog') :
                    ~TradeNames(tradeLog'[k], id)]_vars

\* C3: a MARKET submit that returns success returns the order FILLED with
\* remaining 0 and filled = original, and no MARKET order ever rests in a book.
C3_MarketAllOrNone ==
    /\ \A p \in Procs :
          (ret[p].op = "submit" /\ ret[p].err = "" /\ ret[p].order.Type = Market) =>
              /\ ret[p].order.RemainingQuantity = 0
              /\ ret[p].order.FilledQuantity = ret[p].order.OriginalQuantity
              /\ ret[p].order.Status = Filled
    /\ \A id \in DOMAIN orders : orders[id].Type = Market => ~IsResting(id)

\* C3 witness: a MARKET submit returned success after taking two makers.
C3_Witness ==
    \E p \in Procs :
        /\ ret[p].op = "submit" /\ ret[p].err = ""
        /\ ret[p].order.Type = Market
        /\ Len(ret[p].trades) = 2


\* The sum of the remaining quantities of a set of orders.
RECURSIVE TotalRemaining(_)
TotalRemaining(ids) ==
    IF ids = {} THEN 0
    ELSE LET i == CHOOSE x \in ids : TRUE
         IN  orders[i].RemainingQuantity + TotalRemaining(ids \ {i})

\* The total remaining quantity resting on the side opposite to side.
OppositeTotal(ob, side) == TotalRemaining(LevelIds(SideTree(ob, Opposite(side))))

\* Caller p, holding the book lock, makes the step that decides the admission
\* of its order.
AdmitsNow(p) == pc[p] = "admit" /\ pc'[p] # "admit"

\* C4: a MARKET submit whose quantity exceeds the total remaining quantity of
\* the opposite side fails with INSUFFICIENT_LIQUIDITY (available = that
\* total, requested = its quantity), produces no trade, leaves the book and
\* every resting order as they were, and its id is not in the registry once it
\* has returned.
C4_MarketRejection ==
    /\ [][\A p \in Procs :
            LET order == orders[call[p].id]
                ob    == books[call[p].ob]
                total == OppositeTotal(ob, order.Side)
            IN  (AdmitsNow(p) /\ order.Type = Market /\ order.OriginalQuantity > total) =>
                    /\ ret'[p] = RetError("submit", order.ID, "INSUFFICIENT_LIQUIDITY",
                                          total, order.OriginalQuantity)
                    /\ tradeLog' = tradeLog
                    /\ books' = books
                    /\ \A i \in RestingIn(ob) : orders'[i] = orders[i]
                    /\ order.ID \notin AllOrders']_vars
    /\ [](\A p \in Procs :
            ret[p].op = "submit" /\ ret[p].err = "INSUFFICIENT_LIQUIDITY" =>
                ret[p].id \notin AllOrders)

\* C4 witness: a MARKET order of quantity 2 was rejected while 1 was resting
\* on the opposite side, which still rests.
C4_Witness ==
    \E p \in Procs :
        /\ ret[p].op = "submit" /\ ret[p].err = "INSUFFICIENT_LIQUIDITY"
        /\ ret[p].available = 1 /\ ret[p].requested = 2
        /\ \E b \in BookIds : RestingIn(books[b]) # {}


\* Caller p executes a trade in this step.
TradesNow(p) ==
    /\ pc[p] = "match"
    /\ call'[p] # call[p]
    /\ Len(tradeLog') = Len(tradeLog) + 1

\* The trade executed in this step.
NewTradeOf == tradeLog'[Len(tradeLog')]

\* The resting orders this step changes.
MakersOf(p) == {m \in RestingIn(books[call[p].ob]) : orders'[m] # orders[m]}

\* Price a is strictly better than price b for a maker of the given side.
Better(a, b, side) == IF side = Buy THEN a > b ELSE a < b

\* The prices of a list of trades never get better for the makers' side as
\* the list goes on: non-decreasing for an incoming BUY, non-increasing for an
\* incoming SELL.
PricesWorsen(trades, incomingSide) ==
    \A k, l \in 1..Len(trades) :
        k < l => ~Better(trades[l].Price, trades[k].Price, Opposite(incomingSide))

\* C5: every trade consumes exactly one order resting on the side opposite to
\* the incoming order, and no order rests on that side at a strictly better
\* price at that moment; the trades a submit returns have non-decreasing
\* prices for a BUY and non-increasing prices for a SELL.
C5_PricePriority ==
    /\ [][\A p \in Procs :
            TradesNow(p) =>
                LET incoming == orders[call[p].id]
                    ob       == books[call[p].ob]
                    side     == Opposite(incoming.Side)
                IN  /\ Cardinality(MakersOf(p)) = 1
                    /\ \A m \in MakersOf(p) :
                          /\ m \in LevelIds(SideTree(ob, side))
                          /\ orders[m].Side = side
                          /\ TradeNames(NewTradeOf, m)
                          /\ \A j \in LevelIds(SideTree(ob, side)) :
                                ~Better(orders[j].Price, orders[m].Price, side)]_vars
    /\ [](\A p \in Procs :
            (ret[p].op = "submit" /\ ret[p].err = "") =>
                PricesWorsen(ret[p].trades, ret[p].order.Side))

\* C5 witness: a submit returned two trades made at two different prices.
C5_Witness ==
    \E p \in Procs :
        /\ ret[p].op = "submit" /\ ret[p].err = ""
        /\ Len(ret[p].trades) = 2
        /\ ret[p].trades[1].Price # ret[p].trades[2].Price


\* When order id was added to its book: its position in addLog.
AddPos(id) == CHOOSE k \in 1..Len(addLog) : addLog[k] = [op |-> "add", id |-> id]

\* The orders of a level are in the order in which they were added.
InAddOrder(level) ==
    \A k, l \in 1..Len(level) : k < l => AddPos(level[k]) < AddPos(level[l])

\* C6: within a price level orders are consumed in the order in which they
\* were added to the book. Every level is always in add order (also after a
\* cancel removed an order from inside it); a trade consumes the order added
\* first among those resting at its price and side; a maker that is only
\* partially filled is still the head of its level after the trade.
C6_TimePriority ==
    /\ [](\A b \in BookIds : \A side \in {Buy, Sell} :
            \A k \in DOMAIN SideTree(books[b], side) :
                InAddOrder(SideTree(books[b], side)[k]))
    /\ [][\A p \in Procs :
            TradesNow(p) =>
                \A m \in MakersOf(p) :
                    LET tree  == SideTree(books[call[p].ob], orders[m].Side)
                        tree2 == SideTree(books'[call[p].ob], orders[m].Side)
                    IN  /\ \A j \in LevelIds(tree) \ {m} :
                              orders[j].Price = orders[m].Price =>
                                  AddPos(m) < AddPos(j)
                        /\ orders'[m].RemainingQuantity > 0 =>
                              /\ orders[m].Price \in DOMAIN tree2
                              /\ Head(tree2[orders[m].Price]) = m]_vars

\* C6 witness: orders 1, 2 and 3 were added to one level in that order, 2 was
\* cancelled from the middle, and then order 4 traded with 1 while 3 rests.
C6_Witness ==
    /\ {1, 2, 3} \subseteq DOMAIN orders
    /\ addLog = <<[op |-> "add", id |-> 1], [op |-> "add", id |-> 2],
                  [op |-> "add", id |-> 3], [op |-> "cancel", id |-> 2]>>
    /\ orders[1].Side = orders[2].Side /\ orders[2].Side = orders[3].Side
    /\ orders[2].Status = Cancelled
    /\ ret[1].op = "submit" /\ ret[1].err = "" /\ ret[1].id = 4
    /\ Len(ret[1].trades) = 1
    /\ TradeNames(ret[1].trades[1], 1)
    /\ IsResting(3)


MinOf(a, b) == IF a < b THEN a ELSE b

\* C7: a trade of incoming order i against resting order m has the price of
\* m and the quantity min(i.remaining, m.remaining) > 0 taken before the
\* trade; both orders have remaining decreased and filled increased by that
\* quantity; the buyer is whichever of i and m has side BUY and the seller the
\* one with side SELL; the trade is appended to the submit's result list.
C7_TradeFields ==
    [][\A p \in Procs :
          TradesNow(p) =>
              LET i == call[p].id
                  t == NewTradeOf
              IN  /\ Cardinality(MakersOf(p)) = 1
                  /\ \A m \in MakersOf(p) :
                        /\ t.Price = orders[m].Price
                        /\ t.Quantity = MinOf(orders[i].RemainingQuantity,
                                              orders[m].RemainingQuantity)
                        /\ t.Quantity > 0
                        /\ \A o \in {i, m} :
                              /\ orders'[o].RemainingQuantity =
                                    orders[o].RemainingQuantity - t.Quantity
                              /\ orders'[o].FilledQuantity =
                                    orders[o].FilledQuantity + t.Quantity
                        /\ {orders[i].Side, orders[m].Side} = {Buy, Sell}
                        /\ \A o \in {i, m} :
                              /\ orders[o].Side = Buy => t.BuyerOrderID = o
                              /\ orders[o].Side = Sell => t.SellerOrderID = o
                        /\ call'[p].trades = Append(call[p].trades, t)]_vars

\* C7 witness: a LIMIT submit returned a trade made at the maker's price,
\* different from its own, for less than its own quantity.
C7_Witness ==
    \E p \in Procs :
        /\ ret[p].op = "submit" /\ ret[p].err = ""
        /\ ret[p].order.Type = Limit
        /\ Len(ret[p].trades) > 0
        /\ ret[p].trades[1].Price # ret[p].order.Price
        /\ ret[p].trades[1].Quantity < ret[p].order.OriginalQuantity


\* The quantities of an order add up and its status agrees with them.
OrderConsistent(o) ==
    /\ o.FilledQuantity + o.RemainingQuantity = o.OriginalQuantity
    /\ 0 <= o.RemainingQuantity /\ o.RemainingQuantity <= o.OriginalQuantity
    /\ (o.Status = Filled) <=> (o.RemainingQuantity = 0)
    /\ o.Status = Accepted => o.FilledQuantity = 0
    /\ o.Status = PartialFill => o.FilledQuantity > 0 /\ o.RemainingQuantity > 0
    /\ o.Status = Cancelled => o.RemainingQuantity > 0

\* No submit or cancel is at work on the book of the symbol: every operation
\* that took its lock has completed.
SymbolUnlocked(symbol) ==
    symbol \in DOMAIN OrderBooks => Unlocked(OrderBooks[symbol])

\* C8: after every completed submit or cancel (no writer holds the lock of the
\* order's book), every order in the registry has filled + remaining =
\* original, 0 <= remaining <= original, status FILLED iff remaining = 0,
\* ACCEPTED only with filled = 0, PARTIAL_FILL only with filled > 0 and
\* remaining > 0, CANCELLED only with remaining > 0.
C8_OrderConsistency ==
    \A id \in AllOrders :
        SymbolUnlocked(orders[id].Symbol) => OrderConsistent(orders[id])

\* C8 witness: every call has returned and the registry holds a FILLED order
\* and an order cancelled after it was partly filled.
C8_Witness ==
    /\ \A p \in Procs : pc[p] = "idle"
    /\ \E id \in AllOrders : orders[id].Status = Filled
    /\ \E id \in AllOrders :
          orders[id].Status = Cancelled /\ orders[id].FilledQuantity > 0


\* The book of a symbol; a symbol without a book yet has an empty one.
BookOf(symbol) ==
    IF symbol \in DOMAIN OrderBooks THEN books[OrderBooks[symbol]]
    ELSE NewOrderBook(symbol)

\* Two calls returned the same: the same error, or the same order (status and
\* quantities) and the same trades.
SameReturn(a, b) ==
    /\ a.op = b.op
    /\ a.id = b.id
    /\ a.err = b.err
    /\ a.available = b.available /\ a.requested = b.requested
    /\ a.err = "" => a.order = b.order /\ a.trades = b.trades

Quiescent == \A p \in Procs : pc[p] = "idle"

\* C9: the submits and cancels are linearizable in the order in which they
\* took the book's exclusive lock: every submit or cancel returns what it
\* returns in the one-at-a-time execution of the same calls in that order,
\* and once every call has returned the registry and the books equal those
\* of that execution.
C9_Linearizable ==
    /\ \A p \in Procs :
          pc[p] = "idle" /\ ret[p].op \in {"submit", "cancel"} =>
              SameReturn(ret[p], linRet[p])
    /\ Quiescent =>
          /\ AllOrders = lin.AllOrders
          /\ \A id \in AllOrders : orders[id] = lin.orders[id]
          /\ \A s \in Symbols : BookOf(s) = lin.books[s]


\* The caller is in a call that has not returned.
Unfinished(p) == pc[p] # "idle"

\* The caller waits for a lock another caller holds.
Blocked(p) ==
    /\ Unfinished(p)
    /\ ~ENABLED Runs(p)

\* C10: no deadlock. In no reachable state is every unfinished call blocked
\* on the engine-registry lock or a book lock, and under fair scheduling
\* every submit, cancel, get_order and depth call that has started returns.
C10_NoDeadlock ==
    /\ []((\E p \in Procs : Unfinished(p)) =>
             \E p \in Procs : Unfinished(p) /\ ~Blocked(p))
    /\ \A p \in Procs : (Unfinished(p) ~> ~Unfinished(p))

\* C10 witness: a caller waits for the exclusive lock of a book that another
\* caller, in the middle of its own call, holds.
C10_Witness ==
    \E p \in Procs : \E q \in Procs \ {p} :
        /\ pc[p] \in {"lock", "rlock"}
        /\ bookMu[call[p].ob].w = q
        /\ Unfinished(q)
        /\ Blocked(p)


\* Caller p completes, in this step, the cancel of an order that rests with
\* status ACCEPTED or PARTIAL_FILL.
CancelsResting(p) ==
    /\ pc[p] = "cancel" /\ pc'[p] = "idle"
    /\ call[p].id \in RestingIn(books[call[p].ob])
    /\ orders[call[p].id].Status \in {Accepted, PartialFill}

Without(level, id) == SelectSeq(level, LAMBDA x : x # id)

\* The tree is the old one with id taken out of its level, and the level
\* deleted when nothing is left in it.
TreeWithout(new, old, id) ==
    /\ DOMAIN new = {k \in DOMAIN old : Without(old[k], id) # << >>}
    /\ \A k \in DOMAIN new : new[k] = Without(old[k], id)

\* The quantity a depth snapshot shows at a price (0 when it has no entry).
EntryQty(entries, price) ==
    IF \E i \in 1..Len(entries) : entries[i].Price = price
    THEN LET i == CHOOSE i \in 1..Len(entries) : entries[i].Price = price
         IN  entries[i].Quantity
    ELSE 0

DepthSide(depth, side) == IF side = Buy THEN depth.Bids ELSE depth.Asks

\* C11: the cancel of a resting order returns it with status CANCELLED, takes
\* exactly that order out of by_id and of its price level (the level is
\* deleted when it becomes empty), so that a depth query no longer counts its
\* quantity; filled and remaining are unchanged, every other order and the
\* queue order of the others are unchanged, and of the counters only
\* orders_cancelled (+1) and orders_in_book (-1) change.
C11_CancelResting ==
    [][\A p \in Procs :
          CancelsResting(p) =>
              LET id == call[p].id
                  b  == call[p].ob
                  o  == orders[id]
                  d0 == GetDepth(books[b], orders, 0)
                  d1 == GetDepth(books'[b], orders', 0)
              IN  /\ ret'[p].op = "cancel" /\ ret'[p].err = ""
                  /\ ret'[p].order = [o EXCEPT !.Status = Cancelled]
                  /\ orders' = [orders EXCEPT ![id].Status = Cancelled]
                  /\ books'[b].Orders = books[b].Orders \ {id}
                  /\ TreeWithout(books'[b].Bids, books[b].Bids, id)
                  /\ TreeWithout(books'[b].Asks, books[b].Asks, id)
                  /\ id \notin RestingIn(books'[b])
                  /\ \A c \in BookIds \ {b} : books'[c] = books[c]
                  /\ \A side \in {Buy, Sell}, price \in 0..MaxPrice :
                        EntryQty(DepthSide(d1, side), price) =
                            EntryQty(DepthSide(d0, side), price)
                            - (IF side = o.Side /\ price = o.Price
                               THEN o.RemainingQuantity ELSE 0)
                  /\ metrics' = [metrics EXCEPT !.OrdersCancelled = @ + 1,
                                                !.OrdersInBook = @ - 1]
                  /\ AllOrders' = AllOrders]_vars

\* C11 witness: the last change of a book was the cancel of an order, now
\* returned CANCELLED, that was not alone in its level: another order still
\* rests at its price on its side.
C11_Witness ==
    \E p \in Procs :
        /\ ret[p].op = "cancel" /\ ret[p].err = ""
        /\ Len(addLog) > 0
        /\ addLog[Len(addLog)] = [op |-> "cancel", id |-> ret[p].id]
        /\ \E b \in BookIds :
              ret[p].order.Price \in DOMAIN SideTree(books[b], ret[p].order.Side)


\* The step changes no order, no book, no counter and not the registry.
EngineUntouched ==
    /\ orders' = orders
    /\ books' = books
    /\ metrics' = metrics
    /\ AllOrders' = AllOrders

\* Caller p calls, in this step, the cancel of a registered order and makes
\* the status checks that need no lock.
CancelChecks(p, id) == CancelStart(p, id) /\ id \in AllOrders

\* Caller p's cancel returns in this step from under the book lock.
CancelReturnsLocked(p) == pc[p] = "cancel" /\ pc'[p] = "idle"

\* C12: a FILLED order is never turned into CANCELLED. A cancel that finds
\* the order FILLED, at its first check or at the re-check under the book
\* lock (a concurrent submit filled the order in between), returns
\* ALREADY_FILLED and changes no order, book or counter.
C12_FilledNotCancelled ==
    [][/\ \A id \in DOMAIN orders :
             orders[id].Status = Filled => orders'[id].Status # Cancelled
       /\ \A p \in Procs :
             /\ \A id \in KnownIds :
                   (CancelChecks(p, id) /\ orders[id].Status = Filled) =>
                       /\ pc'[p] = "idle"
                       /\ ret'[p].err = "ALREADY_FILLED"
                       /\ EngineUntouched
             /\ (CancelReturnsLocked(p) /\ orders[call[p].id].Status = Filled) =>
                    ret'[p].err = "ALREADY_FILLED" /\ EngineUntouched]_vars

\* C12 witness: a cancel passed its first status check, and holds the book
\* lock now that a concurrent submit has filled its order.
C12_Witness ==
    \E p \in Procs :
        /\ pc[p] = "cancel"
        /\ call[p].op = "cancel"
        /\ orders[call[p].id].Status = Filled


\* C13: cancel is idempotent. A cancel of an order whose status is already
\* CANCELLED, when it acts on the order (at its first check, or under the
\* book lock), returns success with that order and changes no book, no order
\* field and no counter: n cancels of one resting order leave the state one
\* cancel leaves.
C13_CancelIdempotent ==
    [][\A p \in Procs :
          /\ \A id \in KnownIds :
                (CancelChecks(p, id) /\ orders[id].Status = Cancelled) =>
                    /\ pc'[p] = "idle"
                    /\ ret'[p].err = "" /\ ret'[p].order = orders[id]
                    /\ EngineUntouched
          /\ (CancelReturnsLocked(p) /\ orders[call[p].id].Status = Cancelled) =>
                /\ ret'[p].err = "" /\ ret'[p].order = orders[call[p].id]
                /\ EngineUntouched]_vars


\* C14: for every order, over every step: remaining never increases and
\* never goes below 0, filled never decreases, original never changes; once
\* the status is FILLED, status, remaining and filled stay as they are and
\* the order rests in no book.
C14_FilledTerminal ==
    /\ [][\A id \in DOMAIN orders :
             /\ orders'[id].RemainingQuantity <= orders[id].RemainingQuantity
             /\ orders'[id].RemainingQuantity >= 0
             /\ orders'[id].FilledQuantity >= orders[id].FilledQuantity
             /\ orders'[id].OriginalQuantity = orders[id].OriginalQuantity
             /\ orders[id].Status = Filled =>
                   /\ orders'[id].Status = Filled
                   /\ orders'[id].RemainingQuantity = orders[id].RemainingQuantity
                   /\ orders'[id].FilledQuantity = orders[id].FilledQuantity]_vars
    /\ [](\A id \in DOMAIN orders : orders[id].Status = Filled => ~IsResting(id))

\* C14 witness: an order is FILLED and a cancel of it, made afterwards, was
\* refused; another order has been filled in part.
C14_Witness ==
    /\ \E p \in Procs :
          /\ ret[p].op = "cancel" /\ ret[p].err = "ALREADY_FILLED"
          /\ orders[ret[p].id].Status = Filled
    /\ \E id \in DOMAIN orders : orders[id].Status = PartialFill


\* The error the validation of a submitted order is to give ("" for none).
ValidationError(in) ==
    IF in.type = Limit /\ in.price <= 0 THEN "INVALID_PRICE"
    ELSE IF in.qty <= 0 THEN "INVALID_QUANTITY"
    ELSE ""

\* C15: a submit of a LIMIT order with price <= 0 fails with INVALID_PRICE and
\* a submit of an order with quantity <= 0 with INVALID_QUANTITY, the price
\* check first. The rejected order is not put into the registry, no book is
\* created or changed, no trade is made, and of the counters only
\* orders_received changes.
C15_Validation ==
    [][nextId' # nextId => \A p \in Procs : \A in \in EdgeInputs :
          (ValidationError(in) # "" /\ SubmitStart(p, in)) =>
              /\ pc'[p] = "idle"
              /\ ret'[p].op = "submit"
              /\ ret'[p].err = ValidationError(in)
              /\ AllOrders' = AllOrders /\ ret'[p].id \notin AllOrders'
              /\ orders' = orders
              /\ OrderBooks' = OrderBooks /\ books' = books
              /\ tradeLog' = tradeLog
              /\ metrics' = [metrics EXCEPT !.OrdersReceived = @ + 1]]_vars

\* C15 witness: one submit was refused with INVALID_PRICE and one with
\* INVALID_QUANTITY; both were counted as received, the registry is empty and
\* there is no book.
C15_Witness ==
    /\ \E p \in Procs : ret[p].op = "submit" /\ ret[p].err = "INVALID_PRICE"
    /\ \E p \in Procs : ret[p].op = "submit" /\ ret[p].err = "INVALID_QUANTITY"
    /\ metrics.OrdersReceived = 2
    /\ AllOrders = {} /\ books = << >>


ValidLimit(in) == in.type = Limit /\ in.price > 0 /\ in.qty > 0

\* C16: a submit of a valid LIMIT order (price > 0, quantity > 0) is never
\* refused at its validation, and whenever it returns, under any interleaving
\* with the submits and cancels of other callers, it returns success with
\* its order.
C16_ValidLimitSucceeds ==
    [][\A p \in Procs :
          /\ nextId' # nextId =>
                \A in \in SpecInputs :
                    (ValidLimit(in) /\ SubmitStart(p, in)) => pc'[p] # "idle"
          /\ (/\ pc[p] # "idle" /\ pc'[p] = "idle"
              /\ call[p].op = "submit"
              /\ orders[call[p].id].Type = Limit) =>
                /\ ret'[p].op = "submit"
                /\ ret'[p].err = ""
                /\ ret'[p].order.ID = call[p].id]_vars

\* C16 witness: a LIMIT submit has returned success, with a trade, while
\* another caller is in the middle of a call.
C16_Witness ==
    \E p \in Procs : \E q \in Procs \ {p} :
        /\ ret[p].op = "submit" /\ ret[p].err = ""
        /\ ret[p].order.Type = Limit
        /\ Len(ret[p].trades) > 0
        /\ Unfinished(q)


\* Caller p's submit returns success in this step.
SubmitReturns(p) ==
    /\ pc[p] = "match" /\ pc'[p] = "idle"
    /\ ret'[p].op = "submit" /\ ret'[p].err = ""

\* The status that goes with the quantities of a returned order.
StatusOf(o) ==
    IF o.RemainingQuantity = 0 THEN Filled
    ELSE IF o.FilledQuantity > 0 THEN PartialFill
    ELSE Accepted

\* The LIMIT order o crosses the book: the opposite side has a price within
\* its limit.
Crosses(o, ob) ==
    \E k \in DOMAIN SideTree(ob, Opposite(o.Side)) :
        IF o.Side = Buy THEN k <= o.Price ELSE k >= o.Price

\* C17: a successful submit returns its order FILLED if remaining = 0,
\* otherwise PARTIAL_FILL if filled > 0, otherwise ACCEPTED. A LIMIT order
\* with remaining > 0 then rests on its own side at its own price, at the
\* tail of the level, with the remaining quantity it was returned with; an
\* order with remaining = 0 does not rest. A LIMIT submit that does not cross
\* the book it finds makes no trade and leaves the opposite side unchanged.
C17_StatusAndResting ==
    [][\A p \in Procs :
          /\ SubmitReturns(p) =>
                LET id    == call[p].id
                    o     == ret'[p].order
                    level == TreeGet(SideTree(books[call[p].ob], o.Side), o.Price)
                    ob1   == books'[call[p].ob]
                IN  /\ o.ID = id /\ o = orders'[id]
                    /\ o.Status = StatusOf(o)
                    /\ (o.Type = Limit /\ o.RemainingQuantity > 0) =>
                          /\ id \in ob1.Orders
                          /\ TreeGet(SideTree(ob1, o.Side), o.Price) = Append(level, id)
                          /\ id \notin LevelIds(SideTree(ob1, Opposite(o.Side)))
                          /\ \A k \in DOMAIN SideTree(ob1, o.Side) \ {o.Price} :
                                \A i \in 1..Len(SideTree(ob1, o.Side)[k]) :
                                    SideTree(ob1, o.Side)[k][i] # id
                    /\ o.RemainingQuantity = 0 => id \notin RestingIn(ob1)
          /\ (/\ pc[p] = "match" /\ call[p].trades = << >>
              /\ orders[call[p].id].Type = Limit
              /\ ~Crosses(orders[call[p].id], books[call[p].ob])) =>
                /\ tradeLog' = tradeLog
                /\ pc'[p] = "match" => call'[p].trades = << >>
                /\ pc'[p] = "idle" => ret'[p].err = "" /\ ret'[p].trades = << >>
                /\ SideTree(books'[call[p].ob], Opposite(orders[call[p].id].Side))
                      = SideTree(books[call[p].ob], Opposite(orders[call[p].id].Side))]_vars

\* C17 witness: a LIMIT submit traded, was returned PARTIAL_FILL and rests at
\* the tail of the level of its price on its own side, while the opposite
\* side still holds an order beyond its limit.
C17_Witness ==
    \E p \in Procs : \E b \in BookIds :
        /\ ret[p].op = "submit" /\ ret[p].err = ""
        /\ ret[p].order.Type = Limit
        /\ ret[p].order.Status = PartialFill
        /\ Len(ret[p].trades) > 0
        /\ LET level == TreeGet(SideTree(books[b], ret[p].order.Side), ret[p].order.Price)
           IN  level # << >> /\ level[Len(level)] = ret[p].id
        /\ ~TreeEmpty(SideTree(books[b], Opposite(ret[p].order.Side)))


\* C19: filled + remaining = original for every order at all times, also in
\* what a concurrent reader observes: no get_order returns an order whose
\* filled_quantity + remaining_quantity differs from its original_quantity.
C19_ReadersSeeSum ==
    /\ \A id \in DOMAIN orders :
          orders[id].FilledQuantity + orders[id].RemainingQuantity
              = orders[id].OriginalQuantity
    /\ \A p \in Procs :
          (ret[p].op = "get_order" /\ ret[p].err = "") =>
              ret[p].order.FilledQuantity + ret[p].order.RemainingQuantity
                  = ret[p].order.OriginalQuantity


\* The order is in the registry and its submit has returned.
Retained(id) ==
    /\ id \in AllOrders
    /\ \A p \in Procs : ~(call[p].op = "submit" /\ call[p].id = id)

\* The same after the step.
RetainedAfter(id) ==
    /\ id \in AllOrders'
    /\ \A p \in Procs : ~(call'[p].op = "submit" /\ call'[p].id = id)

\* C18: once a submit has returned success for an order, the order stays in
\* the registry in every later state and get_order returns it, also when it
\* is FILLED or CANCELLED; the only deletion from the registry is that of a
\* MARKET order its own submit rejects for insufficient liquidity.
C18_RegistryRetention ==
    [][/\ \A p \in Procs :
             (pc[p] # "idle" /\ pc'[p] = "idle"
                /\ ret'[p].op = "submit" /\ ret'[p].err = "") =>
                 RetainedAfter(ret'[p].id)
       /\ \A id \in DOMAIN orders : Retained(id) => RetainedAfter(id)
       /\ \A id \in AllOrders \ AllOrders' :
             \E p \in Procs :
                 /\ pc[p] = "admit" /\ call[p].id = id
                 /\ orders[id].Type = Market
                 /\ pc'[p] = "idle"
                 /\ ret'[p].op = "submit"
                 /\ ret'[p].err = "INSUFFICIENT_LIQUIDITY"
       /\ \A p \in Procs : \A id \in AllOrders :
             GetOrder(p, id) =>
                 /\ ret'[p].op = "get_order" /\ ret'[p].err = ""
                 /\ ret'[p].order.ID = id]_vars

\* C18 witness: get_order has returned an order that is FILLED, and a
\* CANCELLED order is in the registry as well.
C18_Witness ==
    /\ \E p \in Procs :
          /\ ret[p].op = "get_order" /\ ret[p].err = ""
          /\ ret[p].order.Status = Filled
          /\ Retained(ret[p].id)
    /\ \E id \in AllOrders : orders[id].Status \in {Filled, Cancelled}


\* The ids resting at a price in a tree.
RestingAt(tree, price) == {i \in LevelIds(tree) : orders[i].Price = price}

\* One side of a depth snapshot agrees with the side's tree under the limit.
DepthSideRight(entries, tree, side, limit) ==
    LET prices == DOMAIN tree
        n      == Cardinality(prices)
    IN  /\ Len(entries) = (IF limit > 0 THEN MinOf(limit, n) ELSE n)
        /\ \A i \in 1..Len(entries) :
              /\ entries[i].Price \in prices
              /\ entries[i].Quantity = TotalRemaining(RestingAt(tree, entries[i].Price))
              /\ \A j \in (i + 1)..Len(entries) :
                    Better(entries[i].Price, entries[j].Price, side)
              /\ \A k \in prices \ {entries[j].Price : j \in 1..Len(entries)} :
                    Better(entries[i].Price, k, side)

\* C20: depth(symbol, limit) returns for each side the best levels best
\* first (bids strictly descending, asks strictly ascending), one entry per
\* resting price with the sum of the remaining quantities resting at it:
\* the min(limit, number of levels) best levels when limit > 0, all levels
\* when limit <= 0.
C20_Depth ==
    [][\A p \in Procs :
          (pc[p] = "depth" /\ pc'[p] = "idle") =>
              LET d  == ret'[p].depth
                  ob == books[call[p].ob]
              IN  /\ ret'[p].op = "depth" /\ ret'[p].err = ""
                  /\ d.Symbol = call[p].sym
                  /\ DepthSideRight(d.Bids, ob.Bids, Buy, call[p].limit)
                  /\ DepthSideRight(d.Asks, ob.Asks, Sell, call[p].limit)]_vars

\* C20 witness: a depth call with a limit returned one bid level, the one at
\* the higher price, while the book holds bids at two prices.
C20_Witness ==
    \E p \in Procs : \E b \in BookIds :
        /\ ret[p].op = "depth"
        /\ Len(ret[p].depth.Bids) = 1
        /\ Cardinality(DOMAIN books[b].Bids) = 2
        /\ ret[p].depth.Bids[1].Price = SetMax(DOMAIN books[b].Bids)
        /\ ret[p].depth.Bids[1].Quantity > 0


\* Caller p's call returned the error err for the id.
ReturnedError(r, op, id, err) ==
    r.op = op /\ r.err = err /\ r.id = id

\* Caller p's submit returns an error in this step.
SubmitRejected(p) ==
    /\ pc[p] \in {"idle", "admit"}
    /\ pc'[p] = "idle"
    /\ ret'[p].op = "submit"
    /\ ret'[p].err # ""
    /\ opsLeft' # opsLeft \/ pc[p] = "admit"

\* C21: cancel(id) and get_order(id) of an id that is not in the global
\* registry return NOT_FOUND and change nothing: no order, no book, no
\* registry entry, no counter, and no book is created. The ids not in the
\* registry include the id never submitted and the ids of the submits that
\* returned an error (validation, or a MARKET order without liquidity).
C21_NotFound ==
    [][/\ \A p \in Procs : \A id \in KnownIds :
             (id \notin AllOrders /\ (CancelStart(p, id) \/ GetOrder(p, id)))
             => /\ pc'[p] = "idle"
                /\ ReturnedError(ret'[p], IF CancelStart(p, id) THEN "cancel"
                                           ELSE "get_order", id, "NOT_FOUND")
                /\ ret'[p].order = NoOrder
                /\ EngineUntouched
                /\ OrderBooks' = OrderBooks
                /\ bookMu' = bookMu
                /\ mu' = mu
       /\ nextId \notin AllOrders
       /\ \A p \in Procs : SubmitRejected(p) => ret'[p].id \notin AllOrders'
      ]_vars

\* A MARKET order was rejected for liquidity, and the cancel of its id
\* returned NOT_FOUND.
C21_Witness ==
    \E p \in Procs : \E q \in Procs \ {p} :
        /\ ret[p].op = "submit" /\ ret[p].err = "INSUFFICIENT_LIQUIDITY"
        /\ ReturnedError(ret[q], "cancel", ret[p].id, "NOT_FOUND")


\* No operation holds the exclusive lock of any book.
NoBookLocked == \A b \in BookIds : Unlocked(b)

\* The books in which the order rests.
BooksOf(id) == {b \in BookIds : id \in RestingIn(books[b])}

\* The orders the registry says must rest.
MustRest(o) ==
    /\ o.Type = Limit
    /\ o.Status \in {Accepted, PartialFill}
    /\ o.RemainingQuantity > 0

\* C22: whenever no operation holds a book's exclusive lock, an order of the
\* global registry rests in the book of its symbol if and only if it is a
\* LIMIT order with status ACCEPTED or PARTIAL_FILL and remaining > 0, and
\* every other order of the registry is in no book; also between a submit's
\* registry insertion and its acquisition of the book lock.
C22_RegistryBookAgreement ==
    NoBookLocked =>
        \A id \in AllOrders :
            IF MustRest(orders[id])
            THEN /\ orders[id].Symbol \in DOMAIN OrderBooks
                 /\ BooksOf(id) = {OrderBooks[orders[id].Symbol]}
            ELSE BooksOf(id) = {}


\* The level under key k of the side's tree lists orders of that side and
\* price, each once, and is not empty.
LevelRight(ob, side, k) ==
    LET level == SideTree(ob, side)[k]
    IN  /\ Len(level) > 0
        /\ \A i \in 1..Len(level) :
              /\ level[i] \in DOMAIN orders
              /\ orders[level[i]].ID = level[i]
              /\ orders[level[i]].Side = side
              /\ orders[level[i]].Price = k
              /\ orders[level[i]].Symbol = ob.Symbol
              /\ \A j \in 1..Len(level) : level[j] = level[i] => j = i

\* The places (side, key, position) at which the book lists the order.
PlacesOf(ob, id) ==
    {<<side, k, i>> \in {Buy, Sell} \X (0..MaxPrice) \X (1..Cardinality(ob.Orders) + 1) :
        /\ k \in DOMAIN SideTree(ob, side)
        /\ i <= Len(SideTree(ob, side)[k])
        /\ SideTree(ob, side)[k][i] = id}

\* C23: after every completed operation (no writer holds the book's lock),
\* the orders reachable through the price levels of a book are exactly the
\* orders of by_id; each of them is listed exactly once, in one level, on
\* the tree of its side under the key equal to its price; and no level
\* present in a tree is empty.
C23_BookStructure ==
    \A b \in BookIds :
        Unlocked(b) =>
            /\ LevelIds(books[b].Bids) \cup LevelIds(books[b].Asks) = books[b].Orders
            /\ \A side \in {Buy, Sell} : \A k \in DOMAIN SideTree(books[b], side) :
                  LevelRight(books[b], side, k)
            /\ \A id \in books[b].Orders :
                  PlacesOf(books[b], id) =
                      {<<orders[id].Side, orders[id].Price,
                         CHOOSE i \in 1..Len(SideTree(books[b], orders[id].Side)[orders[id].Price]) :
                            SideTree(books[b], orders[id].Side)[orders[id].Price][i] = id>>}

\* A book at rest with two orders in one level and an order on the other
\* side.
C23_Witness ==
    \E b \in BookIds :
        /\ Unlocked(b)
        /\ \E side \in {Buy, Sell} :
              /\ \E k \in DOMAIN SideTree(books[b], side) :
                    Len(SideTree(books[b], side)[k]) = 2
              /\ SideTree(books[b], Opposite(side)) # EmptyTree


\* Caller p holds the mutex, as its writer or as one of its readers.
Holds(p, m) == m.w = p \/ p \in m.r

\* The books whose lock caller p holds.
BooksHeld(p) == {b \in BookIds : Holds(p, bookMu[b])}

\* Caller p waits for a book lock.
AcquiresBook(p) == pc[p] \in {"lock", "rlock"}

\* Caller p, a submit or a cancel, is inside the critical section of book b.
InCritical(p, b) == pc[p] \in {"admit", "match", "cancel"} /\ call[p].ob = b

\* C24: no caller holds the engine-registry lock while it acquires or holds
\* a book lock, no caller holds two book locks at once, the registry lock
\* is released before matching starts, and two writers (submit or cancel)
\* are never inside the critical section of the same book at the same time.
\* (A submit on A and a submit on B inside their critical sections at the
\* same time: C24_Witness.)
C24_LockHierarchy ==
    /\ \A p \in Procs :
          /\ Holds(p, mu) => BooksHeld(p) = {} /\ ~AcquiresBook(p)
          /\ Cardinality(BooksHeld(p)) <= 1
          /\ pc[p] \in {"admit", "match", "cancel", "depth"} =>
                /\ ~Holds(p, mu)
                /\ BooksHeld(p) = {call[p].ob}
          /\ pc[p] \in {"admit", "match", "cancel"} => bookMu[call[p].ob].w = p
    /\ \A b \in BookIds : \A p \in Procs : \A q \in Procs :
          InCritical(p, b) /\ InCritical(q, b) => p = q
    /\ \A b \in BookIds : bookMu[b].w # Nil => bookMu[b].r = {}

\* A submit on one symbol has a resting order to trade with and holds its
\* book's lock while a submit on the other symbol holds the lock of its own.
C24_Witness ==
    \E p \in Procs : \E q \in Procs \ {p} :
        /\ call[p].op = "submit" /\ call[q].op = "submit"
        /\ pc[p] = "match" /\ pc[q] \in {"admit", "match"}
        /\ NextMaker(orders, books[call[p].ob], call[p].id) # Nil
        /\ books[call[p].ob].Symbol # books[call[q].ob].Symbol


\* No submit or cancel is inside the critical section of book b: none has
\* made a part of its fills or of its removal only.
NoWriterInside(b) ==
    /\ bookMu[b].w = Nil
    /\ \A q \in Procs : ~InCritical(q, b)

\* The entries of one side of a snapshot all have a quantity above 0.
NoEmptyEntry(entries) == \A i \in 1..Len(entries) : entries[i].Quantity > 0

\* The snapshot shows no bid at or above an ask.
DepthNotCrossed(depth) ==
    \A i \in 1..Len(depth.Bids) : \A j \in 1..Len(depth.Asks) :
        depth.Bids[i].Price < depth.Asks[j].Price

\* C25: a depth query that runs concurrently with submits and cancels on its
\* symbol returns the state the book has at a moment when no writer holds
\* the book lock. From the moment the query has the shared lock to its
\* return no writer is inside the book and the book and its orders do not
\* change; the snapshot it returns has no level of quantity 0, counts no
\* submit that has made only a part of its fills, and is not crossed.
C25_DepthSnapshot ==
    [][\A p \in Procs :
          /\ pc[p] = "depth" =>
                /\ NoWriterInside(call[p].ob)
                /\ books'[call[p].ob] = books[call[p].ob]
                /\ \A id \in RestingIn(books[call[p].ob]) : orders'[id] = orders[id]
          /\ DepthRead(p) =>
                /\ NoEmptyEntry(ret'[p].depth.Bids)
                /\ NoEmptyEntry(ret'[p].depth.Asks)
                /\ DepthNotCrossed(ret'[p].depth)
                /\ \A q \in Procs : call[q].op = "submit" /\ call[q].ob = call[p].ob =>
                      pc[q] = "lock" /\ call[q].trades = << >>
      ]_vars

\* A depth query returned resting quantity while a submit on the same symbol
\* was waiting for the book lock.
C25_Witness ==
    \E p \in Procs : \E q \in Procs \ {p} :
        /\ ret[p].op = "depth"
        /\ ret[p].depth.Bids # << >> \/ ret[p].depth.Asks # << >>
        /\ call[q].op = "submit"
        /\ pc[q] = "lock"
        /\ books[call[q].ob].Symbol = ret[p].depth.Symbol


\* Caller p's cancel, under the book lock, finds its order in the registry
\* neither FILLED nor CANCELLED and not resting in the book.
CancelsUnrested(p) ==
    /\ CancelLocked(p)
    /\ call[p].id \in AllOrders
    /\ orders[call[p].id].Status \notin {Filled, Cancelled}
    /\ ~IsResting(call[p].id)

\* C26: the cancel of an order that is in the global registry with status
\* neither FILLED nor CANCELLED and is not resting in its book (its own
\* submit has stored it and has not acquired the book lock yet) returns
\* success, sets the order's status to CANCELLED, increments
\* orders_cancelled by 1 and leaves orders_in_book and the book unchanged.
C26_CancelUnrested ==
    [][\A p \in Procs :
          CancelsUnrested(p) =>
              /\ ret'[p].op = "cancel"
              /\ ret'[p].err = ""
              /\ ret'[p].order = [orders[call[p].id] EXCEPT !.Status = Cancelled]
              /\ orders' = [orders EXCEPT ![call[p].id].Status = Cancelled]
              /\ metrics' = [metrics EXCEPT !.OrdersCancelled = @ + 1]
              /\ books' = books
              /\ AllOrders' = AllOrders
              /\ \E q \in Procs \ {p} :
                    /\ call[q].op = "submit" /\ call[q].id = call[p].id
                    /\ pc[q] \in {"gob_rlock", "gob_read", "gob_lock", "gob_create", "lock"}
      ]_vars

\* A cancel returned the order CANCELLED while the order's own submit had
\* not acquired the book lock yet; the order never rested.
C26_Witness ==
    \E p \in Procs : \E q \in Procs \ {p} :
        /\ ret[p].op = "cancel" /\ ret[p].err = ""
        /\ ret[p].order.Status = Cancelled
        /\ call[q].op = "submit" /\ call[q].id = ret[p].id
        /\ pc[q] = "lock"
        /\ metrics.OrdersCancelled = 1
        /\ metrics.OrdersInBook = 0
        /\ ~IsResting(ret[p].id)


\* What a returned submit adds to orders_matched.
MatchedBy(trades) == IF Len(trades) > 0 THEN Len(trades) + 1 ELSE 0

\* Some caller's submit returns success in this step.
SomeSubmitReturns == \E p \in Procs : SubmitReturns(p)

\* A submit is called in this step.
SubmitCalled == \E p \in Procs : \E in \in SpecInputs : SubmitStart(p, in)

\* C27: orders_received equals the number of submit calls made, rejected
\* ones included; trades_executed grows by the number of trades a submit
\* returns and orders_matched by that number + 1 when the submit returns at
\* least one trade, at the return of every successful submit and at no
\* other step, so that a submit rejected by validation or for liquidity adds
\* nothing to them; once every call has returned trades_executed is the
\* number of trades executed.
C27_CounterAccounting ==
    [][/\ metrics.OrdersReceived = nextId - 1
       /\ metrics'.OrdersReceived = nextId' - 1
       /\ metrics'.OrdersReceived =
             metrics.OrdersReceived + (IF SubmitCalled THEN 1 ELSE 0)
       /\ \A p \in Procs :
             SubmitReturns(p) =>
                /\ metrics'.TradesExecuted =
                      metrics.TradesExecuted + Len(ret'[p].trades)
                /\ metrics'.OrdersMatched =
                      metrics.OrdersMatched + MatchedBy(ret'[p].trades)
       /\ ~SomeSubmitReturns =>
             /\ metrics'.TradesExecuted = metrics.TradesExecuted
             /\ metrics'.OrdersMatched = metrics.OrdersMatched
       /\ \A p \in Procs : SubmitRejected(p) => ~SomeSubmitReturns
       /\ Quiescent => metrics.TradesExecuted = Len(tradeLog)
      ]_vars

\* Three submits were made: one returned a trade and one was rejected.
C27_Witness ==
    /\ metrics.OrdersReceived = 3
    /\ metrics.TradesExecuted = 1
    /\ metrics.OrdersMatched = 2
    /\ \E p \in Procs : \E q \in Procs \ {p} :
          /\ ret[p].op = "submit" /\ ret[p].err # ""
          /\ ret[q].op = "submit" /\ ret[q].err = "" /\ Len(ret[q].trades) = 1


\* The orders resting in some book.
AllResting == {id \in DOMAIN orders : IsResting(id)}

\* C28: orders_in_book is never negative and, whenever no operation holds a
\* book lock, equals the number of orders resting across all books, after
\* any interleaving of submits and cancels (a cancel that races with the
\* submit of the same order included).
C28_OrdersInBook ==
    /\ metrics.OrdersInBook >= 0
    /\ NoBookLocked => metrics.OrdersInBook = Cardinality(AllResting)

\* No book is locked and an order rests whose cancel raced with its submit:
\* the cancel returned first, counted, and the submit then rested the order.
C28_Witness ==
    /\ NoBookLocked
    /\ metrics.OrdersCancelled > 0
    /\ metrics.OrdersInBook > 0
    /\ \E id \in AllResting :
          \E p \in Procs : ret[p].op = "submit" /\ ret[p].err = "" /\ ret[p].id = id
    /\ \E p \in Procs :
          /\ ret[p].op = "cancel" /\ ret[p].err = ""
          /\ ret[p].id \in AllResting


\* The trade is at a price no worse than the limit of each LIMIT order it
\* names.
LimitProtected(t, ords) ==
    /\ ords[t.BuyerOrderID].Type = Limit => t.Price <= ords[t.BuyerOrderID].Price
    /\ ords[t.SellerOrderID].Type = Limit => t.Price >= ords[t.SellerOrderID].Price

AllProtected(log, ords) == \A i \in 1..Len(log) : LimitProtected(log[i], ords)

\* The best price of the side opposite to the order, read from the keys of
\* the tree.
BestOppositePrice(o, ob) ==
    IF o.Side = Buy THEN SetMin(DOMAIN ob.Asks) ELSE SetMax(DOMAIN ob.Bids)

\* The order's limit reaches the price (an equal price does).
Reaches(o, price) == IF o.Side = Buy THEN o.Price >= price ELSE o.Price <= price

\* Caller p's incoming LIMIT order has quantity left and the opposite side
\* has orders.
LimitAtLoop(p) ==
    /\ pc[p] = "match"
    /\ orders[call[p].id].Type = Limit
    /\ orders[call[p].id].RemainingQuantity > 0
    /\ ~TreeEmpty(SideTree(books[call[p].ob], Opposite(orders[call[p].id].Side)))

\* C29: no order trades at a price worse than its own limit: every trade
\* naming a BUY LIMIT order has price <= that order's price and every trade
\* naming a SELL LIMIT order has price >= that order's price, as incoming
\* or as resting order. An incoming LIMIT order with quantity left trades
\* with the best opposite order when its limit reaches that order's price
\* (an equal price included) and stops matching when it does not.
C29_LimitProtection ==
    [][/\ AllProtected(tradeLog, orders)
       /\ AllProtected(tradeLog', orders')
       /\ \A p \in Procs :
             LimitAtLoop(p) =>
                LET o == orders[call[p].id]
                    best == BestOppositePrice(o, books[call[p].ob])
                IN  /\ MatchStep(p) => /\ Reaches(o, best)
                                       /\ tradeLog'[Len(tradeLog')].Price = best
                    /\ Finalize(p) => ~Reaches(o, best)
      ]_vars

\* A LIMIT order traded at a price equal to its limit, stopped at the next
\* opposite order, whose price it does not reach, and rests.
C29_Witness ==
    \E p \in Procs :
        /\ ret[p].op = "submit" /\ ret[p].err = ""
        /\ ret[p].order.Type = Limit
        /\ ret[p].order.RemainingQuantity > 0
        /\ ret[p].trades # << >>
        /\ ret[p].trades[1].Price = ret[p].order.Price
        /\ IsResting(ret[p].id)
        /\ \E b \in BookIds :
              /\ ~TreeEmpty(SideTree(books[b], Opposite(ret[p].order.Side)))
              /\ ~Reaches(ret[p].order, BestOppositePrice(ret[p].order, books[b]))


\* The total quantity of the trades of the log that name the order.
RECURSIVE TradedQuantity(_, _)
TradedQuantity(log, id) ==
    IF log = << >> THEN 0
    ELSE (IF TradeNames(Head(log), id) THEN Head(log).Quantity ELSE 0)
         + TradedQuantity(Tail(log), id)

\* The total filled quantity of a set of orders.
RECURSIVE FilledTotal(_)
FilledTotal(ids) ==
    IF ids = {} THEN 0
    ELSE LET id == CHOOSE id \in ids : TRUE
         IN  orders[id].FilledQuantity + FilledTotal(ids \ {id})

\* The orders of a symbol and side.
OrdersOf(symbol, side) ==
    {id \in DOMAIN orders : orders[id].Symbol = symbol /\ orders[id].Side = side}

\* C30: after every completed operation (no operation holds a book lock),
\* every order's filled quantity equals the sum of the quantities of the
\* trades that name it as buyer or seller; every trade names one BUY order
\* as buyer and one SELL order as seller, of the same symbol; and per symbol
\* the total filled quantity of the BUY orders equals that of the SELL
\* orders.
C30_QuantityConservation ==
    NoBookLocked =>
        /\ \A id \in DOMAIN orders :
              orders[id].FilledQuantity = TradedQuantity(tradeLog, id)
        /\ \A i \in 1..Len(tradeLog) :
              /\ tradeLog[i].BuyerOrderID \in DOMAIN orders
              /\ tradeLog[i].SellerOrderID \in DOMAIN orders
              /\ tradeLog[i].BuyerOrderID # tradeLog[i].SellerOrderID
              /\ orders[tradeLog[i].BuyerOrderID].Side = Buy
              /\ orders[tradeLog[i].SellerOrderID].Side = Sell
              /\ orders[tradeLog[i].BuyerOrderID].Symbol =
                    orders[tradeLog[i].SellerOrderID].Symbol
        /\ \A s \in Symbols :
              FilledTotal(OrdersOf(s, Buy)) = FilledTotal(OrdersOf(s, Sell))

\* With no book locked, an order has been filled by two trades.
C30_Witness ==
    /\ NoBookLocked
    /\ Len(tradeLog) = 2
    /\ \E id \in DOMAIN orders :
          /\ TradeNames(tradeLog[1], id) /\ TradeNames(tradeLog[2], id)
          /\ orders[id].FilledQuantity = 2


\* The other order of a trade that names the order id.
MakerOf(t, id) == IF t.BuyerOrderID = id THEN t.SellerOrderID ELSE t.BuyerOrderID

\* The makers of a list of trades of the incoming order id.
Touched(trades, id) == {MakerOf(trades[i], id) : i \in 1..Len(trades)}

\* The orders resting on the side opposite to the order, in the book ob.
OppositeIds(ob, o) == LevelIds(SideTree(ob, Opposite(o.Side)))

\* The orders that rested on the opposite side when caller p's loop started:
\* those resting there now and those its trades have taken.
AtLoopStart(p) ==
    OppositeIds(books[call[p].ob], orders[call[p].id])
    \cup Touched(call[p].trades, call[p].id)

AtLoopStartAfter(p) ==
    OppositeIds(books'[call[p].ob], orders'[call[p].id])
    \cup Touched(call'[p].trades, call[p].id)

\* The maker is completely filled and out of the book ob.
FilledAndRemoved(m, ords, ob) ==
    /\ ords[m].Status = Filled
    /\ ords[m].RemainingQuantity = 0
    /\ m \notin RestingIn(ob)

\* C31: the matching loop of every submit terminates: every iteration
\* lowers the incoming order's remaining quantity, which stays >= 0, and
\* the loop ends once it is 0. It produces at most as many trades as there
\* were orders resting on the opposite side when it started: every trade
\* takes another one of them. Every maker it touches except possibly the
\* last is completely filled (FILLED, removed from the book), and if the
\* last touched maker is left partially filled (PARTIAL_FILL, still resting)
\* the incoming order ends with remaining = 0.
C31_MatchingLoop ==
    [][\A p \in Procs :
          /\ pc[p] = "match" =>
                /\ Len(call[p].trades) = Cardinality(Touched(call[p].trades, call[p].id))
                /\ Len(call[p].trades) <= Cardinality(AtLoopStart(p))
                /\ orders[call[p].id].RemainingQuantity = 0 =>
                      NextMaker(orders, books[call[p].ob], call[p].id) = Nil
          /\ MatchStep(p) =>
                /\ orders'[call[p].id].RemainingQuantity >= 0
                /\ orders'[call[p].id].RemainingQuantity
                      < orders[call[p].id].RemainingQuantity
                /\ AtLoopStartAfter(p) = AtLoopStart(p)
                /\ Len(call'[p].trades) = Len(call[p].trades) + 1
          /\ pc[p] = "admit" /\ pc'[p] = "match" => call'[p].trades = << >>
          /\ SubmitReturns(p) =>
                LET trades == ret'[p].trades
                    id     == ret'[p].id
                    n      == Len(trades)
                    ob     == books'[call[p].ob]
                IN  /\ n <= Cardinality(AtLoopStart(p))
                    /\ \A i \in 1..n : \A j \in 1..n :
                          MakerOf(trades[i], id) = MakerOf(trades[j], id) => i = j
                    /\ \A i \in 1..(n - 1) :
                          FilledAndRemoved(MakerOf(trades[i], id), orders', ob)
                    /\ n > 0 =>
                          \/ FilledAndRemoved(MakerOf(trades[n], id), orders', ob)
                          \/ /\ orders'[MakerOf(trades[n], id)].Status = PartialFill
                             /\ orders'[MakerOf(trades[n], id)].RemainingQuantity > 0
                             /\ MakerOf(trades[n], id) \in RestingIn(ob)
                             /\ orders'[id].RemainingQuantity = 0
      ]_vars

\* A submit returned two trades: its first maker is FILLED and out of the
\* book, its last maker is PARTIAL_FILL and rests, and the incoming order has
\* nothing left.
C31_Witness ==
    \E p \in Procs :
        /\ ret[p].op = "submit" /\ ret[p].err = ""
        /\ Len(ret[p].trades) = 2
        /\ ret[p].order.RemainingQuantity = 0
        /\ orders[MakerOf(ret[p].trades[1], ret[p].id)].Status = Filled
        /\ ~IsResting(MakerOf(ret[p].trades[1], ret[p].id))
        /\ orders[MakerOf(ret[p].trades[2], ret[p].id)].Status = PartialFill
        /\ IsResting(MakerOf(ret[p].trades[2], ret[p].id))


\* Caller p takes this step.
Acts(p) == pc'[p] # pc[p] \/ call'[p] # call[p] \/ ret'[p] # ret[p]

\* The symbols of caller p's call, before and after the step.
StepSymbols(p) ==
    {s \in Symbols : \/ call[p].op # "none" /\ call[p].sym = s
                     \/ call'[p].op # "none" /\ call'[p].sym = s}

\* The step leaves the book of the symbol and every order of the symbol
\* as they are.
SymbolUntouched(s) ==
    /\ s \in DOMAIN OrderBooks =>
          /\ s \in DOMAIN OrderBooks'
          /\ OrderBooks'[s] = OrderBooks[s]
          /\ books'[OrderBooks[s]] = books[OrderBooks[s]]
    /\ \A b \in BookIds : books[b].Symbol = s => books'[b] = books[b]
    /\ \A id \in DOMAIN orders : orders[id].Symbol = s => orders'[id] = orders[id]
    /\ \A id \in DOMAIN orders' : orders'[id].Symbol = s => id \in DOMAIN orders

\* The trade pairs two orders of one symbol.
OneSymbol(t, ords) == ords[t.BuyerOrderID].Symbol = ords[t.SellerOrderID].Symbol

\* C32: symbol isolation: a step of a call on symbol A (a submit or a cancel
\* of an order of A, or a query of A) leaves the book of every other symbol
\* B and every order of B unchanged, however the calls on A and B
\* interleave; every order rests only in the book of its own symbol and no
\* trade pairs orders of different symbols.
C32_SymbolIsolation ==
    [][/\ \A p \in Procs :
             Acts(p) => \A s \in Symbols \ StepSymbols(p) : SymbolUntouched(s)
       /\ \A i \in 1..Len(tradeLog') : OneSymbol(tradeLog'[i], orders')
       /\ \A b \in BookIds : \A id \in RestingIn(books[b]) :
             orders[id].Symbol = books[b].Symbol
      ]_vars

\* A submit on one symbol has traded and still holds its book's lock while a
\* submit of the other symbol holds the lock of its own book.
C32_Witness ==
    \E p \in Procs : \E q \in Procs \ {p} :
        /\ call[p].op = "submit" /\ pc[p] = "match"
        /\ call[p].trades # << >>
        /\ call[q].op = "submit" /\ pc[q] = "match"
        /\ call[q].sym # call[p].sym
        /\ orders[call[q].id].Symbol # orders[call[p].id].Symbol


\* The books allocated for the symbol.
BooksFor(s) == {b \in BookIds : books[b].Symbol = s}

\* C33: lazy book creation is race-free: however concurrent submit, cancel
\* and depth calls on a new symbol interleave, at most one book is ever
\* allocated for a symbol and it is the one registered for it, every caller
\* that has obtained a book holds the registered book of its symbol, and a
\* registered book is never replaced or removed.
C33_LazyCreation ==
    [][/\ \A s \in Symbols :
             /\ Cardinality(BooksFor(s)) <= 1
             /\ s \in DOMAIN OrderBooks <=> BooksFor(s) # {}
             /\ s \in DOMAIN OrderBooks => BooksFor(s) = {OrderBooks[s]}
             /\ s \in DOMAIN OrderBooks =>
                   /\ s \in DOMAIN OrderBooks'
                   /\ OrderBooks'[s] = OrderBooks[s]
                   /\ books'[OrderBooks[s]].Symbol = s
       /\ Len(books') >= Len(books)
       /\ Len(bookMu') = Len(books')
       /\ \A p \in Procs :
             /\ call[p].op # "none" /\ call[p].ob # Nil =>
                   /\ call[p].sym \in DOMAIN OrderBooks
                   /\ call[p].ob = OrderBooks[call[p].sym]
             /\ pc[p] \in {"lock", "rlock", "admit", "match", "cancel", "depth"} =>
                   call[p].ob # Nil
       /\ \A id \in AllOrders : \A b \in BookIds :
             id \in RestingIn(books[b]) => OrderBooks[orders[id].Symbol] = b
      ]_vars

\* Two callers raced to create the book of one symbol: one holds the write
\* lock of the engine for the second lookup after the other has registered
\* the book and obtained it.
C33_Witness ==
    \E p \in Procs : \E q \in Procs \ {p} :
        /\ pc[p] = "gob_create"
        /\ call[p].sym \in DOMAIN OrderBooks
        /\ call[q].op # "none"
        /\ call[q].sym = call[p].sym
        /\ call[q].ob = OrderBooks[call[p].sym]


\* The trades of the log that name the order.
TradesNaming(id) == {i \in 1..Len(tradeLog) : TradeNames(tradeLog[i], id)}

\* The places at which the books list the order.
AllPlacesOf(id) ==
    {<<b, pl>> \in BookIds \X ({Buy, Sell} \X (0..MaxPrice) \X (1..(2 * MaxTestOps + 2))) :
        pl \in PlacesOf(books[b], id)}

\* C34: with concurrent callers each submitting LIMIT orders of quantity 1
\* at one common price, with alternating sides, the number of trades is at
\* most half the number of submissions, every order takes part in at most
\* one trade, and no order id rests more than once in the book; in the
\* final state and in every state before it.
C34_Stress ==
    /\ 2 * Len(tradeLog) <= metrics.OrdersReceived
    /\ metrics.OrdersReceived = nextId - 1
    /\ \A id \in DOMAIN orders :
          /\ Cardinality(TradesNaming(id)) <= 1
          /\ Cardinality(AllPlacesOf(id)) <= 1
          /\ TradesNaming(id) # {} => AllPlacesOf(id) = {}

\* The final state of four submits that made two trades.
C34_Witness ==
    /\ Quiescent
    /\ opsLeft = 0
    /\ metrics.OrdersReceived = MaxTestOps
    /\ 2 * Len(tradeLog) = MaxTestOps


\* Caller p takes a step of a depth call in this step.
DepthActs(p) ==
    /\ Acts(p)
    /\ call[p].op = "depth" \/ (pc[p] = "idle" /\ call'[p].op = "depth")

\* An empty book of the symbol.
EmptyBook(s) == [Symbol |-> s, Bids |-> << >>, Asks |-> << >>, Orders |-> {}]

\* The step registers a new empty book for the symbol and changes no other
\* book.
RegistersEmptyBook(s) ==
    /\ s \notin DOMAIN OrderBooks
    /\ books' = Append(books, EmptyBook(s))
    /\ DOMAIN OrderBooks' = (DOMAIN OrderBooks) \cup {s}
    /\ OrderBooks'[s] = Len(books) + 1
    /\ \A t \in DOMAIN OrderBooks : OrderBooks'[t] = OrderBooks[t]

\* C35: depth(symbol, limit) on a symbol the engine has never seen returns
\* a snapshot with empty bids and empty asks and, as its only side effect,
\* registers a new empty book for that symbol: no step of a depth call
\* changes an order, the registry, a counter or an existing book, and the
\* one step that changes the books registers the empty book of the unknown
\* symbol.
C35_DepthUnknownSymbol ==
    [][\A p \in Procs :
          /\ DepthActs(p) =>
                /\ orders' = orders
                /\ AllOrders' = AllOrders
                /\ metrics' = metrics
                /\ tradeLog' = tradeLog
                /\ \A b \in BookIds : books'[b] = books[b]
                /\ \/ books' = books /\ OrderBooks' = OrderBooks
                   \/ pc[p] = "gob_create" /\ RegistersEmptyBook(call[p].sym)
                /\ pc[p] = "gob_create" /\ call[p].sym \notin DOMAIN OrderBooks =>
                      RegistersEmptyBook(call[p].sym)
          /\ DepthRead(p) /\ RestingIn(books[call[p].ob]) = {} =>
                /\ ret'[p].err = ""
                /\ ret'[p].depth =
                      [Symbol |-> call[p].sym, Bids |-> << >>, Asks |-> << >>]
      ]_vars

\* The first call the engine saw is a depth query: it returned an empty
\* snapshot, and the engine holds one empty book and nothing else.
C35_Witness ==
    \E p \in Procs :
        /\ ret[p].op = "depth"
        /\ ret[p].depth = [Symbol |-> "A", Bids |-> << >>, Asks |-> << >>]
        /\ books = <<EmptyBook("A")>>
        /\ DOMAIN OrderBooks = {"A"}
        /\ orders = << >>
        /\ metrics = NewMetrics


\* CalculateLiquidity returns what the claim says for the total T.
LiquidityRight(v, T, cap) ==
    /\ T < cap => v = T
    /\ T >= cap => cap <= v /\ v <= T
    /\ v < cap <=> T < cap

\* C36: liquidity(side, cap) reads the side opposite to side and never
\* mutates the book: with T the total remaining quantity resting on that
\* opposite side it returns exactly T when T < cap and a value v with
\* cap <= v <= T when T >= cap, so that result < cap iff T < cap; the
\* step of a submit that calls it leaves every book and every order as
\* they are.
C36_Liquidity ==
    [][/\ \A b \in BookIds : \A side \in {Buy, Sell} : \A cap \in LiquidityCaps :
             LiquidityRight(CalculateLiquidity(books[b], orders, side, cap),
                            OppositeTotal(books[b], side), cap)
       /\ \A p \in Procs : AdmitsNow(p) => books' = books /\ orders' = orders
      ]_vars

\* A book with two levels on one side, for which a cap stops the walk in
\* the first level and another cap is above the total.
C36_Witness ==
    \E b \in BookIds : \E side \in {Buy, Sell} :
        /\ Cardinality(DOMAIN SideTree(books[b], Opposite(side))) = 2
        /\ \E cap \in LiquidityCaps :
              /\ cap > 0
              /\ CalculateLiquidity(books[b], orders, side, cap)
                    < OppositeTotal(books[b], side)
        /\ \E cap \in LiquidityCaps :
              CalculateLiquidity(books[b], orders, side, cap) < cap


\* The orders AddOrder is examined with: every order ever stored, with
\* every side and every valid price.
AddInputs ==
    {[orders[id] EXCEPT !.Side = sd, !.Price = pr] :
        id \in DOMAIN orders, sd \in {Buy, Sell}, pr \in 1..MaxPrice}

\* new is old with the order appended at the tail of the level of its side
\* and price (created when absent) and recorded in by_id; nothing else
\* differs.
Appended(new, old, o) ==
    /\ new.Symbol = old.Symbol
    /\ new.Orders = old.Orders \cup {o.ID}
    /\ SideTree(new, Opposite(o.Side)) = SideTree(old, Opposite(o.Side))
    /\ DOMAIN SideTree(new, o.Side) = (DOMAIN SideTree(old, o.Side)) \cup {o.Price}
    /\ \A k \in DOMAIN SideTree(new, o.Side) :
          SideTree(new, o.Side)[k] =
             IF k # o.Price THEN SideTree(old, o.Side)[k]
             ELSE IF k \in DOMAIN SideTree(old, o.Side)
                  THEN SideTree(old, o.Side)[k] \o <<o.ID>>
                  ELSE <<o.ID>>

\* C37: add is idempotent per id: add(order) on a book that already holds
\* an order with the same id leaves by_id and every price level exactly as
\* they were; otherwise it records the order in by_id and appends it at the
\* tail of the level of its side and price, creating the level if absent.
C37_AddIdempotent ==
    \A b \in BookIds : \A o \in AddInputs :
        /\ o.ID \in books[b].Orders => AddOrder(books[b], o) = books[b]
        /\ o.ID \notin books[b].Orders => Appended(AddOrder(books[b], o), books[b], o)
        /\ AddOrder(AddOrder(books[b], o), o) = AddOrder(books[b], o)

\* A book with two orders in one level, and an order out of the book whose
\* own level is absent.
C37_Witness ==
    \E b \in BookIds : \E o \in AddInputs :
        /\ o.ID \notin books[b].Orders
        /\ o = orders[o.ID]
        /\ o.Price \notin DOMAIN SideTree(books[b], o.Side)
        /\ \E k \in DOMAIN SideTree(books[b], o.Side) :
              Len(SideTree(books[b], o.Side)[k]) = 2


\* The heap in which the order o is the object of its id.
HeapWith(o) == [orders EXCEPT ![o.ID] = o]

\* C38: round trip: for any book state and any order o whose id is not in
\* the book, add(o) immediately followed by remove(o.id) returns o and
\* yields the original book: the same by_id, the same price levels on each
\* side (a level created by the add is deleted again) and the same sequence
\* in every level; remove of an id that is not in the book returns
\* not-present and leaves the book unchanged.
C38_AddRemoveRoundTrip ==
    \A b \in BookIds :
        /\ \A o \in AddInputs :
              o.ID \notin books[b].Orders =>
                 /\ RemoveOrderResult(AddOrder(books[b], o), o.ID) = o.ID
                 /\ RemoveOrder(AddOrder(books[b], o), HeapWith(o), o.ID) = books[b]
        /\ \A id \in KnownIds :
              id \notin books[b].Orders =>
                 /\ RemoveOrderResult(books[b], id) = Nil
                 /\ RemoveOrder(books[b], orders, id) = books[b]

\* A book with a level of two orders, an order out of the book that would
\* join that level, and one whose level is absent.
C38_Witness ==
    \E b \in BookIds : \E o \in AddInputs : \E n \in AddInputs :
        /\ o.ID \notin books[b].Orders
        /\ o.Price \in DOMAIN SideTree(books[b], o.Side)
        /\ Len(SideTree(books[b], o.Side)[o.Price]) = 2
        /\ n.ID \notin books[b].Orders
        /\ n.Price \notin DOMAIN SideTree(books[b], n.Side)


\* The orders of a level.
LevelSet(level) == {level[i] : i \in 1..Len(level)}

\* Caller p's MARKET order is rejected for liquidity in this step.
RejectsNow(p) ==
    /\ pc[p] = "admit"
    /\ pc'[p] = "idle"
    /\ ret'[p].err = "INSUFFICIENT_LIQUIDITY"

\* C39: quantity sums do not wrap: the per-level total of depth equals the
\* mathematical sum of the remaining quantities resting in the level and
\* is never negative, and the running sum of liquidity does not wrap, so
\* that a MARKET order is rejected for insufficient liquidity only when
\* the true total of the opposite side is less than its quantity.
C39_SumsDoNotWrap ==
    [][/\ \A b \in BookIds : \A side \in {Buy, Sell} :
             \A k \in DOMAIN SideTree(books[b], side) :
                /\ SumRemaining(SideTree(books[b], side)[k], orders)
                      = TotalRemaining(LevelSet(SideTree(books[b], side)[k]))
                /\ SumRemaining(SideTree(books[b], side)[k], orders) >= 0
       /\ \A p \in Procs :
             /\ DepthRead(p) =>
                   \A side \in {Buy, Sell} :
                      \A i \in 1..Len(DepthSide(ret'[p].depth, side)) :
                         DepthSide(ret'[p].depth, side)[i].Quantity >= 0
             /\ RejectsNow(p) =>
                   OppositeTotal(books[call[p].ob], orders[call[p].id].Side)
                      < orders[call[p].id].OriginalQuantity
      ]_vars

====
